---- MODULE Spec2Model ----
(***************************************************************************)
(* MoriaJS: file-based routing, scoped middleware resolution, the request  *)
(* lifecycle of a registered route and the OAuth callback.                 *)
(*                                                                         *)
(* Paths, URLs and headers are character strings; the string helpers below *)
(* are the JavaScript string methods and regular expressions the code      *)
(* uses, computed character by character.                                  *)
(***************************************************************************)
EXTENDS Integers, Sequences, FiniteSets, TLC

\* ------------------------------------------------------------------ bounds
\* Deepest directory nesting of the generated route file paths.
MaxDepth == 2

\* ------------------------------------------------------- string primitives
CharAt(s, i) == SubSeq(s, i, i)

\* String.prototype.startsWith
StartsWith(s, p) == Len(p) <= Len(s) /\ SubSeq(s, 1, Len(p)) = p

\* suffix test, the `$` anchor of the regular expressions
EndsWith(s, p) == Len(p) <= Len(s) /\ SubSeq(s, Len(s) - Len(p) + 1, Len(s)) = p

\* String.prototype.slice(n), n >= 0
Slice(s, n) == SubSeq(s, n + 1, Len(s))

\* Number of consecutive characters of s from position i on that are not in stop:
\* the longest match of a negated character class [^...]+ starting at i.
RECURSIVE RunLen(_, _, _)
RunLen(s, i, stop) ==
    IF i > Len(s) \/ CharAt(s, i) \in stop THEN 0 ELSE 1 + RunLen(s, i + 1, stop)

\* Position of the first occurrence of the one-character string c in s at or
\* after position i; 0 when there is none.
RECURSIVE IndexFrom(_, _, _)
IndexFrom(s, c, i) ==
    IF i > Len(s) THEN 0
    ELSE IF CharAt(s, i) = c THEN i ELSE IndexFrom(s, c, i + 1)

\* String.prototype.split(c) for a one-character separator
RECURSIVE Split(_, _)
Split(s, c) ==
    LET k == IndexFrom(s, c, 1) IN
    IF k = 0 THEN <<s>> ELSE <<SubSeq(s, 1, k - 1)>> \o Split(Slice(s, k), c)

\* Array.prototype.join(c)
RECURSIVE Join(_, _)
Join(parts, c) ==
    IF parts = <<>> THEN ""
    ELSE IF Len(parts) = 1 THEN parts[1]
    ELSE parts[1] \o c \o Join(Tail(parts), c)

\* position of the last occurrence of c in s; 0 when there is none
RECURSIVE LastIndexOf(_, _, _)
LastIndexOf(s, c, i) ==
    IF i < 1 THEN 0
    ELSE IF CharAt(s, i) = c THEN i ELSE LastIndexOf(s, c, i - 1)

\* path.posix.dirname for the relative, normalised paths glob returns
\* ('a.ts' -> '.', 'api/a.ts' -> 'api')
PosixDirname(p) ==
    LET k == LastIndexOf(p, "/", Len(p)) IN
    IF k = 0 THEN "." ELSE IF k = 1 THEN "/" ELSE SubSeq(p, 1, k - 1)

\* path.posix.basename
PosixBasename(p) == Slice(p, LastIndexOf(p, "/", Len(p)))

\* -------------------------------------------------------- filePathToUrlPath
RouteExtensions == <<".ts", ".js", ".mts", ".mjs">>

\* filePath.replace(/\.(ts|js|mts|mjs)$/, '')
StripExtension(s) ==
    IF \E i \in 1..Len(RouteExtensions) : EndsWith(s, RouteExtensions[i])
    THEN LET i == CHOOSE j \in 1..Len(RouteExtensions) :
                      /\ EndsWith(s, RouteExtensions[j])
                      /\ \A k \in 1..Len(RouteExtensions) :
                            EndsWith(s, RouteExtensions[k])
                                => Len(RouteExtensions[k]) <= Len(RouteExtensions[j])
         IN SubSeq(s, 1, Len(s) - Len(RouteExtensions[i]))
    ELSE s

\* route.replace(/\\/g, '/')
RECURSIVE NormalizeSeparators(_)
NormalizeSeparators(s) ==
    IF s = "" THEN ""
    ELSE (IF Head(s) = "\\" THEN "/" ELSE Head(s)) \o NormalizeSeparators(Tail(s))

\* route.replace(/\[([^\]]+)\]/g, ':$1'): the character class without the dot
RECURSIVE ReplaceParamsAnyChar(_)
ReplaceParamsAnyChar(s) ==
    IF s = "" THEN ""
    ELSE IF Head(s) = "["
         THEN LET n == RunLen(s, 2, {"]"}) IN
              IF n >= 1 /\ n + 2 <= Len(s) /\ CharAt(s, n + 2) = "]"
              THEN ":" \o SubSeq(s, 2, n + 1) \o ReplaceParamsAnyChar(Slice(s, n + 2))
              ELSE "[" \o ReplaceParamsAnyChar(Tail(s))
         ELSE Head(s) \o ReplaceParamsAnyChar(Tail(s))

\* route.replace(/\[([^\].]+)\]/g, ':$1')
RECURSIVE ReplaceParams(_)
ReplaceParams(s) ==
    IF s = "" THEN ""
    ELSE IF Head(s) = "["
         THEN LET n == RunLen(s, 2, {"]", "."}) IN
              IF n >= 1 /\ n + 2 <= Len(s) /\ CharAt(s, n + 2) = "]"
              THEN ":" \o SubSeq(s, 2, n + 1) \o ReplaceParams(Slice(s, n + 2))
              ELSE "[" \o ReplaceParams(Tail(s))
         ELSE Head(s) \o ReplaceParams(Tail(s))

\* route.replace(/\[\.\.\.([^\]]+)\]/g, '*')
RECURSIVE ReplaceCatchAll(_)
ReplaceCatchAll(s) ==
    IF s = "" THEN ""
    ELSE IF StartsWith(s, "[...")
         THEN LET n == RunLen(s, 5, {"]"}) IN
              IF n >= 1 /\ n + 5 <= Len(s) /\ CharAt(s, n + 5) = "]"
              THEN "*" \o ReplaceCatchAll(Slice(s, n + 5))
              ELSE "[" \o ReplaceCatchAll(Tail(s))
         ELSE Head(s) \o ReplaceCatchAll(Tail(s))

\* if (route.startsWith('pages/')) route = route.slice(5)
StripPagesPrefix(s) == IF StartsWith(s, "pages/") THEN Slice(s, 5) ELSE s

\* route.replace(/\/index$/, '')
StripIndex(s) == IF EndsWith(s, "/index") THEN SubSeq(s, 1, Len(s) - 6) ELSE s

\* if (!route.startsWith('/')) route = '/' + route
EnsureLeadingSlash(s) == IF StartsWith(s, "/") THEN s ELSE "/" \o s

filePathToUrlPath(filePath) ==
    LET noExt  == StripExtension(filePath)
        norm   == NormalizeSeparators(noExt)
        params == ReplaceParams(norm)
        catch  == ReplaceCatchAll(params)
        pages  == StripPagesPrefix(catch)
        index  == StripIndex(pages)
        slash  == EnsureLeadingSlash(index)
    IN  IF slash = "" THEN "/" ELSE slash

\* ------------------------------------------------------ generated file paths
\* Directory and file names the generated paths are built from.
DirNames == {"api", "api-x", "pages", "index", "[id]", "[...slug]"}
BaseNames == {"index", "about", "pages", "[id]", "[...slug]", "u-[id]"}

\* all sequences over S of length at most n
RECURSIVE SeqsUpTo(_, _)
SeqsUpTo(S, n) ==
    IF n = 0 THEN {<<>>}
    ELSE LET shorter == SeqsUpTo(S, n - 1) IN
         shorter \cup {Append(q, x) : q \in shorter, x \in S}

\* the route file paths: up to MaxDepth directories, a base name, an extension
RouteSegments ==
    {Append(d, b) : d \in SeqsUpTo(DirNames, MaxDepth), b \in BaseNames}
RoutePaths ==
    {Join(segs, "/") \o RouteExtensions[e] :
        segs \in RouteSegments, e \in 1..Len(RouteExtensions)}

\* ------------------------------------------------------------ middleware.ts
\* A module's default export, as scanMiddleware reads it: a function, an
\* array (here of two functions around a non-function), nothing usable, or a
\* module whose import throws.
ExportShapes == {"function", "array", "none", "throws"}

\* A function is named by the file that exports it and the export (for an
\* array export, its place in the array).
Handler(file, k) == [file |-> file, k |-> k]

\* exported.filter(fn => typeof fn === 'function') / [exported] / []
ResolveHandlers(file, shape) ==
    CASE shape = "function" -> <<Handler(file, "default")>>
      [] shape = "array"    -> <<Handler(file, "default[0]"), Handler(file, "default[2]")>>
      [] OTHER              -> <<>>

\* const scope = dir === '.' ? '' : dir
ScopeOf(file) ==
    LET dir == PosixDirname(file) IN IF dir = "." THEN "" ELSE dir

\* the URL prefix built from a scope
UrlPrefixOf(scope) ==
    IF scope = "" THEN "/"
    ELSE LET stripped == IF StartsWith(scope, "pages") THEN Slice(scope, 5) ELSE scope
             adjusted == IF stripped # "" /\ ~StartsWith(stripped, "/")
                         THEN "/" \o stripped ELSE stripped
         IN  IF adjusted = "" THEN "/" ELSE adjusted

\* a.scope === '' ? 0 : a.scope.split('/').length
ScopeDepth(scope) == IF scope = "" THEN 0 ELSE Len(Split(scope, "/"))

\* a scan that gives up all entries when one file yields none
CollectEntriesAborting(files, exports) ==
    LET live == SelectSeq(files, LAMBDA f : ResolveHandlers(f, exports[f]) # <<>>) IN
    IF Len(live) < Len(files) THEN <<>>
    ELSE [i \in DOMAIN live |->
            [scope |-> ScopeOf(live[i]), urlPrefix |-> UrlPrefixOf(ScopeOf(live[i])),
             handlers |-> ResolveHandlers(live[i], exports[live[i]])]]

\* The loop of scanMiddleware over the enumerated files: a file whose import
\* throws or that resolves to no handler pushes no entry.
RECURSIVE CollectEntries(_, _)
CollectEntries(files, exports) ==
    IF files = <<>> THEN <<>>
    ELSE LET file     == Head(files)
             scope    == ScopeOf(file)
             handlers == ResolveHandlers(file, exports[file])
             rest     == CollectEntries(Tail(files), exports)
         IN  IF exports[file] = "throws" \/ handlers = <<>>
             THEN rest
             ELSE <<[scope |-> scope, urlPrefix |-> UrlPrefixOf(scope),
                     handlers |-> handlers]>> \o rest

\* the entries left in enumeration order
KeepEnumerationOrder(entries) == entries

\* entries.sort((a, b) => depthA - depthB): Array.prototype.sort is stable, so
\* entries of equal depth keep their relative order.
RECURSIVE InsertByDepth(_, _)
InsertByDepth(sorted, e) ==
    IF sorted = <<>> THEN <<e>>
    ELSE LET last == sorted[Len(sorted)] IN
         IF ScopeDepth(last.scope) <= ScopeDepth(e.scope)
         THEN Append(sorted, e)
         ELSE Append(InsertByDepth(SubSeq(sorted, 1, Len(sorted) - 1), e), last)

RECURSIVE SortFrom(_, _)
SortFrom(sorted, rest) ==
    IF rest = <<>> THEN sorted
    ELSE SortFrom(InsertByDepth(sorted, Head(rest)), Tail(rest))

SortByDepth(entries) == SortFrom(<<>>, entries)

\* scanMiddleware: `files` is glob's result, in the order glob enumerated it
scanMiddleware(files, exports) == SortByDepth(CollectEntries(files, exports))

\* entry.scope === '' || routeDir === entry.scope
\*                     || routeDir.startsWith(entry.scope + '/')
InScope(routeDir, scope) ==
    \/ scope = ""
    \/ routeDir = scope
    \/ StartsWith(routeDir, scope \o "/")

RECURSIVE ChainFrom(_, _)
ChainFrom(routeDir, entries) ==
    IF entries = <<>> THEN <<>>
    ELSE (IF InScope(routeDir, Head(entries).scope)
          THEN Head(entries).handlers ELSE <<>>)
         \o ChainFrom(routeDir, Tail(entries))

getMiddlewareChain(routeFilePath, entries) ==
    ChainFrom(PosixDirname(routeFilePath), entries)

\* ---------------------------------------------------------------- router.ts
HTTP_METHODS == <<"GET", "POST", "PUT", "DELETE", "PATCH", "HEAD", "OPTIONS">>

\* method.toLowerCase()
LowerCase == [m \in {HTTP_METHODS[i] : i \in DOMAIN HTTP_METHODS} |->
    CASE m = "GET" -> "get" [] m = "POST" -> "post" [] m = "PUT" -> "put"
      [] m = "DELETE" -> "delete" [] m = "PATCH" -> "patch"
      [] m = "HEAD" -> "head" [] m = "OPTIONS" -> "options"]

\* A route module is [loads, exports]: whether its import succeeds, and a
\* function from export names to the kind of the value exported: "function",
\* "component" (an object with a view) or "value" (anything else that is
\* not null or undefined).
Module(exports) == [loads |-> TRUE, exports |-> exports]
FailingModule == [loads |-> FALSE, exports |-> ("(none)" :> "value")]

ExportKind(mod, name) ==
    IF name \in DOMAIN mod.exports THEN mod.exports[name] ELSE "undefined"

\* a glob call with an empty ignore list
IgnoresNothing(file) == FALSE

\* glob's ignore list: ['**/_*', '**/*.d.ts', '**/*.test.*', '**/*.spec.*']
RECURSIVE Contains(_, _)
Contains(s, part) ==
    IF Len(s) < Len(part) THEN FALSE
    ELSE StartsWith(s, part) \/ Contains(Tail(s), part)

IsIgnored(file) ==
    LET base == PosixBasename(file) IN
    \/ StartsWith(base, "_")
    \/ EndsWith(base, ".d.ts") /\ Len(base) > 5
    \/ ~StartsWith(base, ".") /\ Contains(base, ".test.")
    \/ ~StartsWith(base, ".") /\ Contains(base, ".spec.")

\* the pattern **/*.{ts,js,mts,mjs} minus the ignore list
IsRouteFile(file) ==
    /\ \E i \in DOMAIN RouteExtensions :
          /\ EndsWith(PosixBasename(file), RouteExtensions[i])
          /\ Len(PosixBasename(file)) > Len(RouteExtensions[i])
    /\ ~StartsWith(PosixBasename(file), ".")
    /\ ~IsIgnored(file)

\* const handler = mod[method] ?? mod[method.toLowerCase()]; the export that
\* is looked at, "" when neither name is exported
MethodExport(mod, method) ==
    IF ExportKind(mod, method) # "undefined" THEN method
    ELSE IF ExportKind(mod, LowerCase[method]) # "undefined" THEN LowerCase[method]
    ELSE ""

\* the loop over HTTP_METHODS: the (method, handler) pairs in insertion order
RECURSIVE NamedMethods(_, _, _)
NamedMethods(file, mod, i) ==
    IF i > Len(HTTP_METHODS) THEN <<>>
    ELSE LET method == HTTP_METHODS[i]
             name   == MethodExport(mod, method)
         IN  (IF name # "" /\ ExportKind(mod, name) = "function"
              THEN <<[method |-> LowerCase[method], handler |-> Handler(file, name)]>>
              ELSE <<>>)
             \o NamedMethods(file, mod, i + 1)

\* const type = file.startsWith('api/') ? 'api' : 'page'
RouteType(file) == IF StartsWith(file, "api/") THEN "api" ELSE "page"

RouteEntry(file, type, methods, component, loader) ==
    [filePath |-> file, urlPath |-> filePathToUrlPath(file), type |-> type,
     methods |-> methods, component |-> component, getServerData |-> loader]

\* the page branch without the fallback for a default-exported function
PageRouteWithoutFallback(file, mod) ==
    LET named == NamedMethods(file, mod, 1) IN
    IF ExportKind(mod, "default") = "component"
    THEN <<RouteEntry(file, "page", <<>>, TRUE,
                      ExportKind(mod, "getServerData") = "function")>>
    ELSE IF named # <<>>
    THEN <<RouteEntry(file, "page", named, FALSE, FALSE)>>
    ELSE <<>>

\* The page branch of the loop of scanRoutes: what one file pushes.
PageRoute(file, mod) ==
    LET named == NamedMethods(file, mod, 1) IN
    IF ExportKind(mod, "default") = "component"
    THEN <<RouteEntry(file, "page", <<>>, TRUE,
                      ExportKind(mod, "getServerData") = "function")>>
    ELSE IF ExportKind(mod, "default") = "function"
    THEN <<RouteEntry(file, "page",
                      <<[method |-> "get", handler |-> Handler(file, "default")]>>,
                      FALSE, FALSE)>>
    ELSE IF named # <<>>
    THEN <<RouteEntry(file, "page", named, FALSE, FALSE)>>
    ELSE <<>>

\* the API branch with the default export taking GET whenever it is a function
ApiRouteDefaultFirst(file, mod) ==
    LET named == SelectSeq(NamedMethods(file, mod, 1), LAMBDA e : e.method # "get")
        methods == IF ExportKind(mod, "default") = "function"
                   THEN Append(named, [method |-> "get",
                                       handler |-> Handler(file, "default")])
                   ELSE NamedMethods(file, mod, 1)
    IN  IF methods = <<>> THEN <<>>
        ELSE <<RouteEntry(file, "api", methods, FALSE, FALSE)>>

\* The API branch of the loop of scanRoutes.
ApiRoute(file, mod) ==
    LET named   == NamedMethods(file, mod, 1)
        hasGet  == \E i \in DOMAIN named : named[i].method = "get"
        methods == IF ExportKind(mod, "default") = "function" /\ ~hasGet
                   THEN Append(named, [method |-> "get",
                                       handler |-> Handler(file, "default")])
                   ELSE named
    IN  IF methods = <<>> THEN <<>>
        ELSE <<RouteEntry(file, "api", methods, FALSE, FALSE)>>

\* a scan that a failing import ends: nothing is returned
RECURSIVE scanRoutesAborting(_, _)
scanRoutesAborting(files, modules) ==
    IF \E i \in DOMAIN files : ~modules[files[i]].loads THEN <<>>
    ELSE IF files = <<>> THEN <<>>
    ELSE (IF RouteType(Head(files)) = "page" THEN PageRoute(Head(files), modules[Head(files)])
          ELSE ApiRoute(Head(files), modules[Head(files)]))
         \o scanRoutesAborting(Tail(files), modules)

\* scanRoutes: `files` is glob's result in enumeration order
RECURSIVE scanRoutes(_, _)
scanRoutes(files, modules) ==
    IF files = <<>> THEN <<>>
    ELSE LET file == Head(files)
             mod  == modules[file]
         IN  (IF ~mod.loads THEN <<>>
              ELSE IF RouteType(file) = "page" THEN PageRoute(file, mod)
              ELSE ApiRoute(file, mod))
             \o scanRoutes(Tail(files), modules)

NoPreHandler == <<>>

\* a route registered without its chain
PreHandlerDropped(preChain) == NoPreHandler

\* const preHandler = chain.length > 0 ? chain : undefined
PreHandlerOf(preChain) == IF Len(preChain) > 0 THEN preChain ELSE NoPreHandler

\* the handler registerRoutes wraps around a page component
SsrHandler(file) == Handler(file, "(ssr)")

\* server.route({ method, url, preHandler, handler }) for every method of one
\* route entry, or the single GET route of a page component
RoutesOfEntry(route, entries) ==
    LET preHandler == PreHandlerOf(getMiddlewareChain(route.filePath, entries)) IN
    IF route.component
    THEN <<[method |-> "GET", url |-> route.urlPath, preHandler |-> preHandler,
            handler |-> SsrHandler(route.filePath), file |-> route.filePath]>>
    ELSE [i \in DOMAIN route.methods |->
            [method |-> CHOOSE m \in DOMAIN LowerCase :
                            LowerCase[m] = route.methods[i].method,
             url |-> route.urlPath, preHandler |-> preHandler,
             handler |-> route.methods[i].handler, file |-> route.filePath]]

\* a route table that takes any route
AcceptsDuplicates(table, r) == FALSE

\* Fastify refuses a second route for the same method and URL
IsDuplicate(table, r) ==
    \E i \in DOMAIN table : table[i].method = r.method /\ table[i].url = r.url

\* The registration loop of registerRoutes over the scanned routes.  The
\* result is the route table and whether server.route threw on a duplicate,
\* which ends the loop.
RECURSIVE RegisterEach(_, _)
RegisterEach(acc, pending) ==
    IF pending = <<>> THEN acc
    ELSE IF IsDuplicate(acc.table, Head(pending))
         THEN [acc EXCEPT !.failed = TRUE]
         ELSE RegisterEach([acc EXCEPT !.table = Append(@, Head(pending))],
                           Tail(pending))

RECURSIVE FlattenRoutes(_, _)
FlattenRoutes(routes, entries) ==
    IF routes = <<>> THEN <<>>
    ELSE RoutesOfEntry(Head(routes), entries) \o FlattenRoutes(Tail(routes), entries)

\* a listen that starts the server without registering the scanned routes
RegistersNothing(table, routes, entries) == [table |-> table, failed |-> FALSE]

registerRoutes(table, routes, entries) ==
    RegisterEach([table |-> table, failed |-> FALSE], FlattenRoutes(routes, entries))

\* ------------------------------------------------------------------- app.ts
\* Global middleware is named by its place in config.middleware.
ConfigFile == "(config)"

\* the hooks added in reverse order
HooksReversed(middleware) ==
    [i \in DOMAIN middleware |-> middleware[Len(middleware) + 1 - i]]

\* for (const mw of config.middleware) server.addHook('onRequest', mw)
GlobalHooks(middleware) == middleware

\* server.get('/health', ...)
HealthRoute ==
    [method |-> "GET", url |-> "/health", preHandler |-> NoPreHandler,
     handler |-> Handler("(app)", "health"), file |-> ""]

\* the route a plugin adds through app.use(): the auth plugin's /auth/github
PluginRoute ==
    [method |-> "GET", url |-> "/auth/github", preHandler |-> NoPreHandler,
     handler |-> Handler("(plugin)", "authorize"), file |-> ""]

\* ------------------------------------------------------------ auth/index.ts
\* a query parameter, header or option that is absent
Undefined == "(undefined)"

\* JavaScript truthiness of a string or undefined
Truthy(v) == v # Undefined /\ v # ""

\* a ?? b
Coalesce(a, b) == IF a # Undefined THEN a ELSE b

\* String.prototype.trim
RECURSIVE TrimStart(_)
TrimStart(s) == IF s # "" /\ Head(s) = " " THEN TrimStart(Tail(s)) ELSE s
RECURSIVE TrimEnd(_)
TrimEnd(s) ==
    IF s # "" /\ CharAt(s, Len(s)) = " " THEN TrimEnd(SubSeq(s, 1, Len(s) - 1)) ELSE s
Trim(s) == TrimEnd(TrimStart(s))

StateCookieName == "moria_oauth_state"

\* cookieHeader.split(';').map(c => c.trim())
\*             .find(c => c.startsWith('moria_oauth_state='))
RECURSIVE FindStateCookie(_)
FindStateCookie(parts) ==
    IF parts = <<>> THEN Undefined
    ELSE IF StartsWith(Trim(Head(parts)), StateCookieName \o "=")
         THEN Trim(Head(parts))
         ELSE FindStateCookie(Tail(parts))

\* const savedState = stateCookie?.split('=')[1]
SavedState(cookieHeader) ==
    LET stateCookie == FindStateCookie(Split(cookieHeader, ";")) IN
    IF stateCookie = Undefined THEN Undefined
    ELSE Split(stateCookie, "=")[2]

\* if (!savedState || savedState !== query.state) -> rejected
StateAccepted(cookieHeader, queryState) ==
    LET savedState == SavedState(cookieHeader) IN
    Truthy(savedState) /\ savedState = queryState

\* googleProvider(config) / githubProvider(config): the redirect paths
ProviderOf(name, options) ==
    [name |-> name,
     callbackPath |-> Coalesce(options.callbackUrl, "/auth/" \o name \o "/callback"),
     successRedirect |-> Coalesce(options.successRedirect, "/"),
     failureRedirect |-> Coalesce(options.failureRedirect, "/")]

\* provider.failureRedirect ?? config.failureRedirect ?? '/'
FailureUrl(provider, authConfig) ==
    Coalesce(Coalesce(provider.failureRedirect, authConfig.failureRedirect), "/")

\* provider.successRedirect ?? config.successRedirect ?? '/'
SuccessUrl(provider, authConfig) ==
    Coalesce(Coalesce(provider.successRedirect, authConfig.successRedirect), "/")

\* the Set-Cookie headers the routes write
IssueStateCookie(state) ==
    StateCookieName \o "=" \o state \o "; HttpOnly; Path=/; Max-Age=600; SameSite=Lax"
ClearsSessionCookie == "moria_token=; HttpOnly; Path=/; Max-Age=0"

ClearStateCookie == StateCookieName \o "=; HttpOnly; Path=/; Max-Age=0"

\* server.signIn with the default cookie name, path and SameSite
SignJwt(user) == "jwt(" \o user \o ")"
SessionCookie(user) ==
    "moria_token=" \o SignJwt(user) \o "; HttpOnly; Path=/; SameSite=Lax"

\* the values requireAuth can be called with: undefined, an options object,
\* or a Fastify request (the only one of them with a 'raw' property)
UndefinedArg == [kind |-> "undefined"]
OptionsArg(role) == [kind |-> "options", role |-> role]
RequestArg(token) == [kind |-> "request", token |-> token]

\* a JWT as the request carries it: who signed it, whether it has expired, and
\* its payload's role
Jwt(signedWith, expired, role) ==
    [kind |-> "jwt", signedWith |-> signedWith, expired |-> expired, role |-> role]
Secret == "secret"

\* await request.jwtVerify(): resolves for a token signed with the plugin's
\* secret that has not expired, rejects otherwise
JwtVerifies(token) ==
    /\ token.kind = "jwt"
    /\ token.signedWith = Secret
    /\ ~token.expired

Unauthorized == [status |-> 401, error |-> "Unauthorized"]
Forbidden == [status |-> 403, error |-> "Forbidden"]

\* options?.role
RoleOf(options) == IF options.kind = "options" THEN options.role ELSE Undefined

\* a guard that lets every request through
PerformAuthSkipped(request, options) == [status |-> 0, error |-> ""]

\* performAuth(request, reply, options): the reply it sends, if any
PerformAuth(request, options) ==
    IF ~JwtVerifies(request.token) THEN Unauthorized
    ELSE IF Truthy(RoleOf(options)) /\ request.token.role # RoleOf(options)
         THEN Forbidden
    ELSE [status |-> 0, error |-> ""]

\* arg1 && typeof arg1 === 'object' && 'raw' in arg1
IsDirectCall(arg1) == arg1.kind = "request"

\* the preHandler hook as Fastify runs it for a request: requireAuth itself
\* (direct use) or the function requireAuth(options) returned (factory use)
RunGuard(usage, options, request) ==
    IF usage = "direct"
    THEN IF IsDirectCall(request) THEN PerformAuth(request, UndefinedArg)
         ELSE [status |-> 0, error |-> ""]
    ELSE IF IsDirectCall(options) THEN [status |-> 0, error |-> ""]
         ELSE PerformAuth(request, options)

\* ------------------------------------------------- generated marker files
ScopeNames == {"api", "api-x"}

\* The directories marker and route files of the middleware scan live in: the
\* routes directory, its children and its grandchildren (root, parent, child).
ScopeDirs == SeqsUpTo(ScopeNames, 2)

InDir(dir, name) == Join(Append(dir, name), "/")

\* What the marker file of each extension exports in the generated trees.
MarkerExportOf == [e \in {".ts", ".js"} |->
                     IF e = ".ts" THEN "function" ELSE "array"]

MarkerPaths ==
    {InDir(d, "_middleware" \o e) : d \in ScopeDirs, e \in DOMAIN MarkerExportOf}

MarkerExtension(file) == Slice(file, LastIndexOf(file, ".", Len(file)) - 1)

\* the route files whose chain is asked for
ChainRoutes == {InDir(d, "x.ts") : d \in ScopeDirs}

\* all orders in which glob may enumerate a set of files
Enumerations(S) ==
    {q \in [1..Cardinality(S) -> S] : \A i, j \in DOMAIN q : i # j => q[i] # q[j]}

\* ------------------------------------------------------------------- state
VARIABLES
    fpFile,      \* filePathToUrlPath: the file path given
    fpUrl,       \* filePathToUrlPath: the URL path returned, NoUrl before the call
    markers,     \* the scope-marker files of the routes directory: path -> export shape
    mwPc,        \* middleware resolution: "start", "scanned", "resolved" ("off": unused)
    globOrder,   \* the order in which glob enumerated the marker files
    mwEntries,   \* what scanMiddleware returned
    chainFile,   \* the route file getMiddlewareChain was asked about
    chain,       \* what getMiddlewareChain returned
    config,      \* createApp's options.config: [middleware]
    routeFiles,  \* the route files of the routes directory: path -> module
    pcApp,       \* "created", "listening", "failed" ("off": unused)
    onRequestHooks, \* the server's onRequest hooks, in the order added
    fastifyRoutes,  \* the server's route table, in registration order
    routeEntries,   \* what registerRoutes returned
    req,         \* the request being handled: [route, ran, done], or NoReq
    authConfig,  \* createAuthPlugin's config: [providers, successRedirect, failureRedirect]
    issued,      \* the Set-Cookie header GET /auth/:provider last sent, "" before
    cb,          \* the OAuth callback request being handled, or NoCallback
    guard,       \* the preHandler of the guarded route: [usage, options]
    greq,        \* the request to the guarded route: [token, pc, reply, handled]
    ssr,         \* the request to a page route: [route, pc, calls, contentType, body]
    signConfig,  \* signIn: [secureCookies, nodeEnv] of the plugin's config and process
    signCookie,  \* signIn: the Set-Cookie header written, "" before the call
    toasts,      \* ui: the toast list, records [id, duration] in list order
    timers,      \* ui: the ids whose setTimeout callback is still pending
    nextId,      \* ui: how many toasts were shown so far, plus one (0: unused)
    lastOp,      \* ui: the last call made: [op, id, removed]
    scaffold,    \* create-moria: the run: [pc, name, lang, dir, disk, dirs, files, out, exit]
    browser      \* a browser using the OAuth routes: its cookies and what it sent

urlVars == <<fpFile, fpUrl>>
mwVars == <<markers, mwPc, globOrder, mwEntries, chainFile, chain>>
appVars == <<config, routeFiles, pcApp, onRequestHooks, fastifyRoutes,
             routeEntries, req>>
oauthVars == <<authConfig, issued, cb>>
guardVars == <<guard, greq>>
ssrVars == <<ssr>>
signVars == <<signConfig, signCookie>>
toastVars == <<toasts, timers, nextId, lastOp>>
scaffoldVars == <<scaffold>>
browserVars == <<browser>>
vars == <<urlVars, mwVars, appVars, oauthVars, guardVars, ssrVars, signVars,
          toastVars, scaffoldVars, browserVars>>

NoUrl == "(none)"

\* a group of variables a specification does not use
UrlOff == fpFile = "" /\ fpUrl = NoUrl
MwOff ==
    /\ markers = <<>>
    /\ mwPc = "off"
    /\ globOrder = <<>>
    /\ mwEntries = <<>>
    /\ chainFile = ""
    /\ chain = <<>>

NoReq == [route |-> 0, ran |-> <<>>, done |-> TRUE]

AppOff ==
    /\ config = [middleware |-> <<>>]
    /\ routeFiles = <<>>
    /\ pcApp = "off"
    /\ onRequestHooks = <<>>
    /\ fastifyRoutes = <<>>
    /\ routeEntries = <<>>
    /\ req = NoReq

NoQuery == [code |-> Undefined, state |-> Undefined, error |-> Undefined]
NoCallback ==
    [provider |-> "", query |-> NoQuery, cookie |-> "", pc |-> "done",
     calls |-> <<>>, setCookies |-> <<>>, redirects |-> <<>>]

OAuthOff ==
    /\ authConfig = [providers |-> <<>>, successRedirect |-> Undefined,
                     failureRedirect |-> Undefined]
    /\ issued = ""
    /\ cb = NoCallback

NoGuard == [usage |-> "none", options |-> [kind |-> "undefined"]]
NoToken == [kind |-> "missing"]
NoReply == [status |-> 0, error |-> ""]
NoGuardedRequest == [token |-> NoToken, pc |-> "done", reply |-> NoReply, handled |-> FALSE]

GuardOff ==
    /\ guard = NoGuard
    /\ greq = NoGuardedRequest

NoPage == [route |-> RouteEntry("", "page", <<>>, FALSE, FALSE), pc |-> "off", calls |-> <<>>, contentType |-> "", body |-> ""]
SsrOff == ssr = NoPage

SignOff ==
    /\ signConfig = [secureCookies |-> Undefined, nodeEnv |-> Undefined]
    /\ signCookie = ""

NoCall == [op |-> "none", id |-> 0, removed |-> FALSE]

ToastOff ==
    /\ toasts = <<>>
    /\ timers = {}
    /\ nextId = 0
    /\ lastOp = NoCall

NoScaffold ==
    [pc |-> "off", projectName |-> Undefined, javascript |-> FALSE, typescript |-> FALSE,
     name |-> Undefined, lang |-> "", dir |-> "", disk |-> {}, dirs |-> {}, files |-> {},
     out |-> <<>>, exit |-> 0]

ScaffoldOff == scaffold = NoScaffold

NoVisit == [provider |-> "", query |-> NoQuery]

NoBrowser ==
    [jar |-> <<>>, issuers |-> <<>>, last |-> NoVisit, passed |-> FALSE,
     replay |-> FALSE, stored |-> TRUE]

BrowserOff == browser = NoBrowser

\* ----------------------------------------------- filePathToUrlPath, applied
UrlInit ==
    /\ SsrOff
    /\ SignOff
    /\ ToastOff
    /\ ScaffoldOff
    /\ BrowserOff
    /\ GuardOff
    /\ OAuthOff
    /\ fpFile \in RoutePaths
    /\ fpUrl = NoUrl
    /\ MwOff
    /\ AppOff

ConvertPath ==
    /\ fpUrl = NoUrl
    /\ fpFile # ""
    /\ fpUrl' = filePathToUrlPath(fpFile)
    /\ UNCHANGED <<fpFile, mwVars, appVars, oauthVars, guardVars, ssrVars, signVars, toastVars, scaffoldVars, browserVars>>

UrlNext == ConvertPath

SpecUrl == UrlInit /\ [][UrlNext]_vars

\* ------------------------------- scanMiddleware and getMiddlewareChain, applied
\* Most marker files a generated routes directory holds.
MaxMarkers == 3

MarkerTrees ==
    {[f \in S |-> MarkerExportOf[MarkerExtension(f)]] :
        S \in {T \in SUBSET MarkerPaths : Cardinality(T) <= MaxMarkers}}

ChainInit ==
    /\ SsrOff
    /\ SignOff
    /\ ToastOff
    /\ ScaffoldOff
    /\ BrowserOff
    /\ GuardOff
    /\ OAuthOff
    /\ markers \in MarkerTrees
    /\ mwPc = "start"
    /\ globOrder = <<>>
    /\ mwEntries = <<>>
    /\ chainFile = ""
    /\ chain = <<>>
    /\ UrlOff
    /\ AppOff

\* const files = await glob(...); ...; return entries
ScanMiddleware ==
    /\ mwPc = "start"
    /\ \E order \in Enumerations(DOMAIN markers) :
        /\ globOrder' = order
        /\ mwEntries' = scanMiddleware(order, markers)
    /\ mwPc' = "scanned"
    /\ UNCHANGED <<markers, chainFile, chain, urlVars, appVars, oauthVars, guardVars, ssrVars, signVars, toastVars, scaffoldVars, browserVars>>

\* const chain = getMiddlewareChain(route.filePath, middlewareEntries)
GetMiddlewareChain ==
    /\ mwPc = "scanned"
    /\ \E route \in ChainRoutes :
        /\ chainFile' = route
        /\ chain' = getMiddlewareChain(route, mwEntries)
    /\ mwPc' = "resolved"
    /\ UNCHANGED <<markers, globOrder, mwEntries, urlVars, appVars, oauthVars, guardVars, ssrVars, signVars, toastVars, scaffoldVars, browserVars>>

ChainNext == ScanMiddleware \/ GetMiddlewareChain

SpecChain == ChainInit /\ [][ChainNext]_vars

\* ------------------------------------------------ the application, running
\* Most route files of a generated routes directory, and most global
\* middleware functions of a generated configuration.
MaxRoutes == 2
MaxGlobal == 2

\* The route files the generated routes directories are drawn from, with
\* what each exports.
AppRouteModules ==
    "api/hello.ts"   :> Module("GET" :> "function" @@ "post" :> "function") @@
    "pages/index.ts" :> Module("default" :> "component"
                                @@ "getServerData" :> "function") @@
    "pages/api/x.ts" :> Module("default" :> "function") @@
    "other/x.ts"     :> Module("default" :> "function") @@
    "about.ts"       :> Module("default" :> "component") @@
    "other/m.ts"     :> Module("PUT" :> "function") @@
    "other/none.ts"  :> Module("helper" :> "value") @@
    "other/bad.ts"   :> FailingModule

\* the marker files they are drawn from, with the shape of the default export
AppMarkerModules ==
    "_middleware.ts"       :> "array" @@
    "api/_middleware.ts"   :> "function" @@
    "pages/_middleware.js" :> "throws"

Restrict(f, S) == [x \in S |-> f[x]]

RouteTrees ==
    {Restrict(AppRouteModules, S) :
        S \in {T \in SUBSET DOMAIN AppRouteModules : Cardinality(T) <= MaxRoutes}}

\* a marker file that loads but whose default export holds no function
WithoutHandlers(tree) == [f \in DOMAIN tree |-> IF tree[f] = "throws" THEN "none" ELSE tree[f]]

AppMarkerTrees ==
    {Restrict(AppMarkerModules, S) : S \in SUBSET DOMAIN AppMarkerModules}

\* the same trees, the failing marker file also taken as one without handlers
DeadMarkerTrees == AppMarkerTrees \cup {WithoutHandlers(t) : t \in AppMarkerTrees}

Configs ==
    {[middleware |-> [i \in 1..n |->
                        Handler(ConfigFile, "middleware[" \o ToString(i - 1) \o "]")]] :
        n \in 0..MaxGlobal}

\* the state createApp returns the application in
AppInit ==
    /\ SsrOff
    /\ SignOff
    /\ ToastOff
    /\ ScaffoldOff
    /\ BrowserOff
    /\ GuardOff
    /\ OAuthOff
    /\ config \in Configs
    /\ routeFiles \in RouteTrees
    /\ markers \in AppMarkerTrees
    /\ pcApp = "created"
    /\ onRequestHooks = GlobalHooks(config.middleware)
    /\ fastifyRoutes = <<HealthRoute>>
    /\ routeEntries = <<>>
    /\ req = NoReq
    /\ mwPc = "off"
    /\ globOrder = <<>>
    /\ mwEntries = <<>>
    /\ chainFile = ""
    /\ chain = <<>>
    /\ UrlOff

\* app.use(plugin): plugin.register({ server, config })
Use ==
    /\ pcApp = "created"
    /\ ~IsDuplicate(fastifyRoutes, PluginRoute)
    /\ fastifyRoutes' = Append(fastifyRoutes, PluginRoute)
    /\ UNCHANGED <<config, routeFiles, pcApp, onRequestHooks, routeEntries, req,
                   mwVars, urlVars, oauthVars, guardVars, ssrVars, signVars, toastVars, scaffoldVars, browserVars>>

\* the files of the routes directory
TreeFiles == DOMAIN routeFiles \cup DOMAIN markers

\* the pattern **/_middleware.{ts,js,mts,mjs}
IsMarkerFile(file) ==
    \E i \in DOMAIN RouteExtensions :
        PosixBasename(file) = "_middleware" \o RouteExtensions[i]

\* app.listen(): registerRoutes (scanRoutes, scanMiddleware, the registration
\* loop), then server.listen.  A rejected registerRoutes rejects listen.
Listen ==
    /\ pcApp = "created"
    /\ \E routeOrder \in Enumerations({f \in TreeFiles : IsRouteFile(f)}),
          markerOrder \in Enumerations({f \in TreeFiles : IsMarkerFile(f)}) :
        LET routes  == scanRoutes(routeOrder, routeFiles)
            entries == scanMiddleware(markerOrder, markers)
            reg     == registerRoutes(fastifyRoutes, routes, entries)
        IN  /\ mwEntries' = entries
            /\ fastifyRoutes' = reg.table
            /\ routeEntries' = IF reg.failed THEN <<>> ELSE routes
            /\ pcApp' = IF reg.failed THEN "failed" ELSE "listening"
    /\ UNCHANGED <<config, routeFiles, onRequestHooks, req, markers, mwPc,
                   globOrder, chainFile, chain, urlVars, oauthVars, guardVars, ssrVars, signVars, toastVars, scaffoldVars, browserVars>>

\* What a request to route r passes through: the onRequest hooks, the
\* route's preHandler hooks, the route's handler.
Pipeline(r) ==
    [i \in DOMAIN onRequestHooks |-> [stage |-> "onRequest", fn |-> onRequestHooks[i]]]
    \o [i \in DOMAIN fastifyRoutes[r].preHandler |->
            [stage |-> "preHandler", fn |-> fastifyRoutes[r].preHandler[i]]]
    \o <<[stage |-> "handler", fn |-> fastifyRoutes[r].handler]>>

\* a request arrives and is routed
ReceiveRequest ==
    /\ pcApp = "listening"
    /\ req.done
    /\ \E r \in DOMAIN fastifyRoutes :
        req' = [route |-> r, ran |-> <<>>, done |-> FALSE]
    /\ UNCHANGED <<config, routeFiles, pcApp, onRequestHooks, fastifyRoutes,
                   routeEntries, mwVars, urlVars, oauthVars, guardVars, ssrVars, signVars, toastVars, scaffoldVars, browserVars>>

\* The next hook runs.  It returns nothing (the request goes on), or it
\* sends a response or throws (the request ends there).
RunHook ==
    /\ ~req.done
    /\ LET step == Pipeline(req.route)[Len(req.ran) + 1] IN
        /\ step.stage # "handler"
        /\ \E outcome \in {"continue", "respond", "throw"} :
            req' = [req EXCEPT
                      !.ran = Append(@, [stage |-> step.stage, fn |-> step.fn,
                                         outcome |-> outcome]),
                      !.done = outcome # "continue"]
    /\ UNCHANGED <<config, routeFiles, pcApp, onRequestHooks, fastifyRoutes,
                   routeEntries, mwVars, urlVars, oauthVars, guardVars, ssrVars, signVars, toastVars, scaffoldVars, browserVars>>

\* every hook has returned without responding: the route handler runs
RunHandler ==
    /\ ~req.done
    /\ LET step == Pipeline(req.route)[Len(req.ran) + 1] IN
        /\ step.stage = "handler"
        /\ req' = [req EXCEPT
                     !.ran = Append(@, [stage |-> "handler", fn |-> step.fn,
                                        outcome |-> "respond"]),
                     !.done = TRUE]
    /\ UNCHANGED <<config, routeFiles, pcApp, onRequestHooks, fastifyRoutes,
                   routeEntries, mwVars, urlVars, oauthVars, guardVars, ssrVars, signVars, toastVars, scaffoldVars, browserVars>>

Next == Use \/ Listen \/ ReceiveRequest \/ RunHook \/ RunHandler

Spec == AppInit /\ [][Next]_vars

\* ------------------------------------------- scanRoutes' glob call, applied
\* Routes directories of one or two files whose names the glob call has to
\* tell apart; every file exports handlers, so whatever glob returns becomes
\* a route.
GlobDirs == {"", "api/", "pages/", "api/v1/"}
GlobBaseNames ==
    {"_middleware.ts", "_helper.js", "types.d.ts", "hello.test.ts",
     "hello.spec.mjs", "hello.ts", "test.ts"}
GlobPaths == {d \o b : d \in GlobDirs, b \in GlobBaseNames}
GlobTrees ==
    {[f \in S |-> Module("GET" :> "function" @@ "default" :> "function")] :
        S \in {{a, b} : a \in GlobPaths, b \in GlobPaths}}

GlobInit ==
    /\ SsrOff
    /\ SignOff
    /\ ToastOff
    /\ ScaffoldOff
    /\ BrowserOff
    /\ routeFiles \in GlobTrees
    /\ markers = [f \in {g \in DOMAIN routeFiles : IsMarkerFile(g)} |-> "function"]
    /\ config = [middleware |-> <<>>]
    /\ pcApp = "created"
    /\ onRequestHooks = <<>>
    /\ fastifyRoutes = <<HealthRoute>>
    /\ routeEntries = <<>>
    /\ req = NoReq
    /\ mwPc = "off"
    /\ globOrder = <<>>
    /\ mwEntries = <<>>
    /\ chainFile = ""
    /\ chain = <<>>
    /\ UrlOff
    /\ OAuthOff
    /\ GuardOff

GlobNext == Listen

SpecGlob == GlobInit /\ [][GlobNext]_vars

\* ------------------------------------- marker files without handlers, applied
MarkerInit ==
    /\ routeFiles \in RouteTrees
    /\ markers \in DeadMarkerTrees
    /\ config = [middleware |-> <<>>]
    /\ pcApp = "created"
    /\ onRequestHooks = <<>>
    /\ fastifyRoutes = <<HealthRoute>>
    /\ routeEntries = <<>>
    /\ req = NoReq
    /\ mwPc = "off"
    /\ globOrder = <<>>
    /\ mwEntries = <<>>
    /\ chainFile = ""
    /\ chain = <<>>
    /\ UrlOff
    /\ OAuthOff
    /\ GuardOff
    /\ SsrOff
    /\ SignOff
    /\ ToastOff
    /\ ScaffoldOff
    /\ BrowserOff

SpecMarkers == MarkerInit /\ [][GlobNext]_vars

\* ------------------------------------------------ scope prefixes, applied
\* the directories a file lies in, the routes directory itself ("") included
RECURSIVE AncestorDirs(_)
AncestorDirs(file) ==
    LET dir == PosixDirname(file) IN
    IF dir = "." THEN {""} ELSE {dir} \cup AncestorDirs(dir)

\* A routes directory of one route file with a marker file in each of the
\* directories it lies in.
PrefixInit ==
    /\ SsrOff
    /\ SignOff
    /\ ToastOff
    /\ ScaffoldOff
    /\ BrowserOff
    /\ \E file \in RoutePaths :
        /\ routeFiles = (file :> Module("GET" :> "function"))
        /\ markers = [m \in {InDir(Split(d, "/"), "_middleware.ts") :
                                d \in AncestorDirs(file) \ {""}}
                             \cup {"_middleware.ts"} |-> "function"]
    /\ config = [middleware |-> <<>>]
    /\ pcApp = "created"
    /\ onRequestHooks = <<>>
    /\ fastifyRoutes = <<HealthRoute>>
    /\ routeEntries = <<>>
    /\ req = NoReq
    /\ mwPc = "off"
    /\ globOrder = <<>>
    /\ mwEntries = <<>>
    /\ chainFile = ""
    /\ chain = <<>>
    /\ UrlOff
    /\ OAuthOff
    /\ GuardOff

SpecPrefix == PrefixInit /\ [][GlobNext]_vars

\* ------------------------------------------------ an API route file, applied
\* what an API route file may export: each name absent, a function, or
\* another value
ApiExportNames == {"GET", "get", "POST", "post", "put", "default"}
ApiModules ==
    {Module([n \in S |-> kinds[n]]) :
        S \in SUBSET ApiExportNames, kinds \in [ApiExportNames -> {"function", "value"}]}
ApiFile == "api/items/[id].ts"

ApiInit ==
    /\ SsrOff
    /\ SignOff
    /\ ToastOff
    /\ ScaffoldOff
    /\ BrowserOff
    /\ \E mod \in ApiModules : routeFiles = (ApiFile :> mod)
    /\ markers = <<>>
    /\ config = [middleware |-> <<>>]
    /\ pcApp = "created"
    /\ onRequestHooks = <<>>
    /\ fastifyRoutes = <<HealthRoute>>
    /\ routeEntries = <<>>
    /\ req = NoReq
    /\ mwPc = "off"
    /\ globOrder = <<>>
    /\ mwEntries = <<>>
    /\ chainFile = ""
    /\ chain = <<>>
    /\ UrlOff
    /\ OAuthOff
    /\ GuardOff

SpecApi == ApiInit /\ [][GlobNext]_vars

\* ------------------------------------------------- the OAuth routes, applied
ProviderNames == {"google", "github"}
States == {"ab", "cd"}
Codes == {Undefined, "", "c1"}
QueryStates == {Undefined, ""} \cup States
Errors == {Undefined, "access_denied"}
Tokens == {"t1", "t2"}
Thrown == "(throws)"

\* the provider options and plugin config an application may pass
RedirectOptions(success, failure) ==
    [callbackUrl |-> Undefined, successRedirect |-> success, failureRedirect |-> failure]
AuthConfigs ==
    {[providers |-> [n \in ProviderNames |-> ProviderOf(n, RedirectOptions(ps, pf))],
      successRedirect |-> cs, failureRedirect |-> cf] :
        <<ps, pf>> \in {<<Undefined, Undefined>>, <<"/welcome", "/denied">>},
        <<cs, cf>> \in {<<Undefined, Undefined>>, <<"/home", "/login">>}}

\* the name=value pair a browser keeps from a Set-Cookie header
CookiePairOf(setCookie) ==
    LET semi == IndexFrom(setCookie, ";", 1) IN
    IF semi = 0 THEN setCookie ELSE SubSeq(setCookie, 1, semi - 1)

\* the Cookie headers a callback request may carry: the browser's, after
\* GET /auth/:provider, or any other client's
CookieHeaders(setCookie) ==
    (IF setCookie = "" THEN {}
     ELSE {CookiePairOf(setCookie), "sid=1; " \o CookiePairOf(setCookie)})
    \cup {"", "moria_oauth_state=", "xmoria_oauth_state=ab",
          "moria_oauth_state=ab=cd", "moria_oauth_state=cd; moria_oauth_state=ab"}

Event(op, kind, val) == [op |-> op, kind |-> kind, val |-> val]

OAuthInit ==
    /\ SsrOff
    /\ SignOff
    /\ ToastOff
    /\ ScaffoldOff
    /\ BrowserOff
    /\ GuardOff
    /\ authConfig \in AuthConfigs
    /\ issued = ""
    /\ cb = NoCallback
    /\ UrlOff
    /\ MwOff
    /\ AppOff

\* GET /auth/:provider
Authorize ==
    /\ \E provider \in ProviderNames, state \in States :
        issued' = IssueStateCookie(state)
    /\ UNCHANGED <<authConfig, cb, urlVars, mwVars, appVars, guardVars, ssrVars, signVars, toastVars, scaffoldVars, browserVars>>

\* a GET of a provider's callback path arrives
ReceiveCallback ==
    /\ cb.pc = "done"
    /\ \E provider \in ProviderNames, code \in Codes, state \in QueryStates,
          error \in Errors, cookie \in CookieHeaders(issued) :
        cb' = [NoCallback EXCEPT !.provider = provider,
                                 !.query = [code |-> code, state |-> state,
                                            error |-> error],
                                 !.cookie = cookie,
                                 !.pc = "received"]
    /\ UNCHANGED <<authConfig, issued, urlVars, mwVars, appVars, guardVars, ssrVars, signVars, toastVars, scaffoldVars, browserVars>>

Redirected(c, url) == [c EXCEPT !.pc = "done", !.redirects = Append(@, url)]
FailureOf(c) == FailureUrl(authConfig.providers[c.provider], authConfig)
SuccessOf(c) == SuccessUrl(authConfig.providers[c.provider], authConfig)

\* an exception leaves the handler: the request ends without a reply of its own
ExceptionEscapes(c) == [c EXCEPT !.pc = "threw"]

\* catch (err) { ...; return reply.redirect(failureUrl) }
Caught(c) == Redirected(c, FailureOf(c))

\* the callback handler up to its first await
CheckCallback ==
    /\ cb.pc = "received"
    /\ cb' = IF Truthy(cb.query.error) \/ ~Truthy(cb.query.code)
               THEN Redirected(cb, FailureOf(cb))
             ELSE IF ~StateAccepted(cb.cookie, cb.query.state)
               THEN Redirected(cb, FailureOf(cb))
             ELSE [cb EXCEPT !.pc = "exchanging",
                             !.setCookies = Append(@, ClearStateCookie),
                             !.calls = Append(@, Event("exchangeCode", "call",
                                                       cb.query.code))]
    /\ UNCHANGED <<authConfig, issued, urlVars, mwVars, appVars, guardVars, ssrVars, signVars, toastVars, scaffoldVars, browserVars>>

\* await provider.exchangeCode(...) settles
ExchangeSettles ==
    /\ cb.pc = "exchanging"
    /\ \E result \in Tokens \cup {Thrown} :
        cb' = IF result = Thrown
                THEN Caught([cb EXCEPT !.calls =
                         Append(@, Event("exchangeCode", "throw", Thrown))])
              ELSE [cb EXCEPT !.pc = "fetching",
                              !.calls = @ \o <<Event("exchangeCode", "return", result),
                                               Event("fetchProfile", "call", result)>>]
    /\ UNCHANGED <<authConfig, issued, urlVars, mwVars, appVars, guardVars, ssrVars, signVars, toastVars, scaffoldVars, browserVars>>

\* the access token fetchProfile was called with
AccessTokenOf(c) ==
    LET i == CHOOSE i \in DOMAIN c.calls :
                 c.calls[i].op = "fetchProfile" /\ c.calls[i].kind = "call" IN
    c.calls[i].val

\* await provider.fetchProfile(accessToken) settles
FetchSettles ==
    /\ cb.pc = "fetching"
    /\ \E result \in {"user-of-" \o AccessTokenOf(cb), Thrown} :
        cb' = IF result = Thrown
                THEN Caught([cb EXCEPT !.calls =
                         Append(@, Event("fetchProfile", "throw", Thrown))])
              ELSE [cb EXCEPT !.pc = "signing",
                              !.calls = @ \o <<Event("fetchProfile", "return", result),
                                               Event("signIn", "call", result)>>]
    /\ UNCHANGED <<authConfig, issued, urlVars, mwVars, appVars, guardVars, ssrVars, signVars, toastVars, scaffoldVars, browserVars>>

\* the user signIn was called with
SignedUserOf(c) ==
    LET i == CHOOSE i \in DOMAIN c.calls :
                 c.calls[i].op = "signIn" /\ c.calls[i].kind = "call" IN
    c.calls[i].val

\* await server.signIn(user, reply) settles
SignInSettles ==
    /\ cb.pc = "signing"
    /\ \E ok \in BOOLEAN :
        cb' = IF ~ok
                THEN Caught([cb EXCEPT !.calls =
                         Append(@, Event("signIn", "throw", Thrown))])
              ELSE Redirected([cb EXCEPT
                         !.setCookies = Append(@, SessionCookie(SignedUserOf(cb))),
                         !.calls = Append(@, Event("signIn", "return",
                                                   SignJwt(SignedUserOf(cb))))],
                         SuccessOf(cb))
    /\ UNCHANGED <<authConfig, issued, urlVars, mwVars, appVars, guardVars, ssrVars, signVars, toastVars, scaffoldVars, browserVars>>

OAuthNext ==
    \/ Authorize
    \/ ReceiveCallback
    \/ CheckCallback
    \/ ExchangeSettles
    \/ FetchSettles
    \/ SignInSettles

SpecOAuth == OAuthInit /\ [][OAuthNext]_vars

\* ------------------------------------------------ a guarded route, applied
Roles == {Undefined, "", "admin", "user"}

\* preHandler: [requireAuth], [requireAuth()] or [requireAuth(options)]
Guards ==
    {[usage |-> "direct", options |-> UndefinedArg],
     [usage |-> "factory", options |-> UndefinedArg]}
    \cup {[usage |-> "factory", options |-> OptionsArg(role)] : role \in Roles}

\* the tokens a request may carry
RequestTokens ==
    {NoToken, [kind |-> "malformed"]}
    \cup {Jwt(signedWith, expired, role) :
            signedWith \in {Secret, "other"}, expired \in BOOLEAN, role \in Roles}

GuardInit ==
    /\ SsrOff
    /\ SignOff
    /\ ToastOff
    /\ ScaffoldOff
    /\ BrowserOff
    /\ guard \in Guards
    /\ greq = NoGuardedRequest
    /\ UrlOff
    /\ MwOff
    /\ AppOff
    /\ OAuthOff

\* a request to the guarded route arrives
ReceiveGuarded ==
    /\ greq.pc = "done"
    /\ \E token \in RequestTokens :
        greq' = [NoGuardedRequest EXCEPT !.token = token, !.pc = "preHandler"]
    /\ UNCHANGED <<guard, urlVars, mwVars, appVars, oauthVars, ssrVars, signVars, toastVars, scaffoldVars, browserVars>>

\* Fastify runs the route's preHandler; a reply sent there ends the request
RunRequireAuth ==
    /\ greq.pc = "preHandler"
    /\ LET reply == RunGuard(guard.usage, guard.options, RequestArg(greq.token)) IN
        greq' = [greq EXCEPT !.reply = reply,
                             !.pc = IF reply.status = 0 THEN "handler" ELSE "done"]
    /\ UNCHANGED <<guard, urlVars, mwVars, appVars, oauthVars, ssrVars, signVars, toastVars, scaffoldVars, browserVars>>

\* the route handler runs
RunGuardedHandler ==
    /\ greq.pc = "handler"
    /\ greq' = [greq EXCEPT !.handled = TRUE, !.pc = "done",
                            !.reply = [status |-> 200, error |-> ""]]
    /\ UNCHANGED <<guard, urlVars, mwVars, appVars, oauthVars, ssrVars, signVars, toastVars, scaffoldVars, browserVars>>

GuardNext == ReceiveGuarded \/ RunRequireAuth \/ RunGuardedHandler

SpecGuard == GuardInit /\ [][GuardNext]_vars

\* ------------------------------------------- the SSR handler, applied
EmptyObject == "{}"

\* what a loader may resolve to: objects, and JavaScript's falsy values
LoaderResults == {"{user}", EmptyObject, Undefined, "null", "false", "0", ""}
Falsy(v) == v \in {Undefined, "null", "false", "0", ""}

\* (await getServerData(request)) || {}
OrEmptyObject(v) == IF Falsy(v) THEN EmptyObject ELSE v

\* a handler that renders without running the loader
RenderFirst(route) == "rendering"

\* if (getServerData) { ... }: what the handler does first
HandlerStart(route) == IF route.getServerData THEN "loading" ELSE "rendering"

\* the page routes scanRoutes returns for files with a component
PageFiles == {"pages/index.ts", "about.ts", "pages/users/[id].ts"}
PageEntries ==
    {PageRoute(file, Module(("default" :> "component") @@ extra))[1] :
        file \in PageFiles,
        extra \in {<<>>, "getServerData" :> "function", "getServerData" :> "value"}}

SsrInit ==
    /\ \E route \in PageEntries : ssr = [NoPage EXCEPT !.route = route, !.pc = "idle"]
    /\ SignOff
    /\ ToastOff
    /\ ScaffoldOff
    /\ BrowserOff
    /\ UrlOff
    /\ MwOff
    /\ AppOff
    /\ OAuthOff
    /\ GuardOff

\* a GET of the page's URL reaches the handler: it calls the loader, or
\* without one renderToString with an empty initialData
SsrHandle ==
    /\ ssr.pc \in {"idle", "sent", "failed"}
    /\ \E request \in {"request-1", "request-2"} :
        ssr' = [NoPage EXCEPT
                  !.route = ssr.route,
                  !.pc = HandlerStart(ssr.route),
                  !.calls = IF HandlerStart(ssr.route) = "loading"
                            THEN <<Event("getServerData", "call", request)>>
                            ELSE <<Event("renderToString", "call", EmptyObject)>>]
    /\ UNCHANGED <<urlVars, mwVars, appVars, oauthVars, guardVars, signVars, toastVars, scaffoldVars, browserVars>>

\* await getServerData(request) settles; renderToString is called next
SsrLoaderSettles ==
    /\ ssr.pc = "loading"
    /\ \E result \in LoaderResults \cup {Thrown} :
        ssr' = IF result = Thrown
                 THEN [ssr EXCEPT !.pc = "failed",
                                  !.calls = Append(@, Event("getServerData", "throw", Thrown))]
               ELSE [ssr EXCEPT !.pc = "rendering",
                                !.calls = @ \o <<Event("getServerData", "return", result),
                                                 Event("renderToString", "call",
                                                       OrEmptyObject(result))>>]
    /\ UNCHANGED <<urlVars, mwVars, appVars, oauthVars, guardVars, signVars, toastVars, scaffoldVars, browserVars>>

\* await renderToString(...) settles; reply.type('text/html'); return html
SsrRenderSettles ==
    /\ ssr.pc = "rendering"
    /\ \E ok \in BOOLEAN :
        ssr' = IF ~ok
                 THEN [ssr EXCEPT !.pc = "failed",
                                  !.calls = Append(@, Event("renderToString", "throw", Thrown))]
               ELSE [ssr EXCEPT !.pc = "sent",
                                !.calls = Append(@, Event("renderToString", "return", "html")),
                                !.contentType = "text/html",
                                !.body = "html"]
    /\ UNCHANGED <<urlVars, mwVars, appVars, oauthVars, guardVars, signVars, toastVars, scaffoldVars, browserVars>>

SsrNext == SsrHandle \/ SsrLoaderSettles \/ SsrRenderSettles

SpecSsr == SsrInit /\ [][SsrNext]_vars

\* ------------------------------------------------------ signIn, applied
\* booleans of the config are kept as "true" / "false", Undefined when unset

\* the Secure attribute decided by the environment alone
SecureByEnvOnly(cfg) == IF cfg.nodeEnv = "production" THEN "; Secure" ELSE ""

\* (config.secureCookies ?? process.env.NODE_ENV === 'production') ? '; Secure' : ''
SecureAttribute(cfg) ==
    IF Coalesce(cfg.secureCookies,
                IF cfg.nodeEnv = "production" THEN "true" ELSE "false") = "true"
    THEN "; Secure" ELSE ""

\* the Set-Cookie header server.signIn(user, reply) writes
SignInCookie(cfg, user) ==
    Coalesce(cfg.cookieName, "moria_token") \o "=" \o SignJwt(user)
    \o "; HttpOnly; Path=" \o Coalesce(cfg.cookiePath, "/")
    \o "; SameSite=" \o Coalesce(cfg.sameSite, "Lax")
    \o SecureAttribute(cfg)

SignConfigs ==
    [secureCookies : {Undefined, "true", "false"},
     nodeEnv : {Undefined, "production", "development", "test"},
     cookieName : {Undefined, "sid"},
     cookiePath : {Undefined, "/app"},
     sameSite : {Undefined, "strict", "none"}]

SignInit ==
    /\ signConfig \in SignConfigs
    /\ signCookie = ""
    /\ SsrOff
    /\ UrlOff
    /\ MwOff
    /\ AppOff
    /\ OAuthOff
    /\ GuardOff
    /\ ToastOff
    /\ ScaffoldOff
    /\ BrowserOff

\* await server.signIn(user, reply)
SignIn ==
    /\ \E user \in {"user-1", "user-2"} : signCookie' = SignInCookie(signConfig, user)
    /\ UNCHANGED <<signConfig, urlVars, mwVars, appVars, oauthVars, guardVars, ssrVars, toastVars, scaffoldVars, browserVars>>

SpecSignIn == SignInit /\ [][SignIn]_vars

\* ------------------------------------------------ claims on filePathToUrlPath
\* the path segments of a route file, its extension removed
SegmentsOf(file) == Split(StripExtension(file), "/")

\* One path segment as the routing convention reads it: a bracket part
\* [...name] stands for "*", a bracket part [name] for ":name".
SegmentPattern(seg) ==
    LET k == IndexFrom(seg, "[", 1)
        e == IndexFrom(seg, "]", 1)
    IN  IF k = 0 \/ e < k THEN seg
        ELSE IF StartsWith(Slice(seg, k - 1), "[...")
             THEN SubSeq(seg, 1, k - 1) \o "*" \o Slice(seg, e)
             ELSE SubSeq(seg, 1, k - 1) \o ":" \o SubSeq(seg, k + 1, e - 1)
                      \o Slice(seg, e)

PatternsOf(segs) == [i \in 1..Len(segs) |-> SegmentPattern(segs[i])]

\* The URL of a directory given by its segments: the leading "pages" is not
\* part of the URL, the routes directory itself is "/".
DirectoryUrl(dirs) ==
    LET shown == IF dirs # <<>> /\ dirs[1] = "pages" THEN Tail(dirs) ELSE dirs
    IN  "/" \o Join(PatternsOf(shown), "/")

IsIndexFile(file) ==
    LET segs == SegmentsOf(file) IN segs[Len(segs)] = "index"

\* C4 (as claimed): a route file named `index` gets the URL of its parent
\* directory; an index file directly in the routes directory gets "/".
C4_IndexMapsToParent ==
    (fpUrl # NoUrl /\ IsIndexFile(fpFile)) =>
        LET segs == SegmentsOf(fpFile) IN
        fpUrl = DirectoryUrl(SubSeq(segs, 1, Len(segs) - 1))

\* The part of C4 the code does satisfy: an index file inside a directory.
C4_NestedIndexMapsToParent ==
    (fpUrl # NoUrl /\ IsIndexFile(fpFile) /\ Len(SegmentsOf(fpFile)) > 1) =>
        LET segs == SegmentsOf(fpFile) IN
        fpUrl = DirectoryUrl(SubSeq(segs, 1, Len(segs) - 1))

\* the segments of a URL path ("/" has none)
UrlSegments(url) == IF url = "/" THEN <<>> ELSE Split(Slice(url, 1), "/")

\* C5: every bracket segment [name] appears in the URL as :name and every
\* [...name] as *, in the order of the file path, and every other segment is
\* unchanged; the only segments the URL leaves out are a leading `pages` and
\* a trailing `index`.
C5_BracketSegmentsInOrder ==
    fpUrl # NoUrl =>
        LET pats == PatternsOf(SegmentsOf(fpFile))
            n    == Len(pats)
        IN  \E a \in {1, 2}, b \in {n - 1, n} :
                /\ a = 2 => pats[1] = "pages"
                /\ b = n - 1 => pats[n] = "index"
                /\ UrlSegments(fpUrl) = SubSeq(pats, a, b)

C5_Witness ==
    /\ fpFile = "[id]/[...slug]/u-[id].ts"
    /\ fpUrl = "/:id/*/u-:id"

\* ------------------------------- claims on scanMiddleware/getMiddlewareChain
\* the directory segments of a path ("" and "." have none)
DirSegments(dir) == IF dir = "" \/ dir = "." THEN <<>> ELSE Split(dir, "/")

\* p is a prefix of q, segment by segment
IsSegmentPrefix(p, q) == Len(p) <= Len(q) /\ SubSeq(q, 1, Len(p)) = p

\* the marker file contributes to the route: its directory is the routes
\* directory, the route's directory or an ancestor of it
Covers(marker, route) ==
    IsSegmentPrefix(DirSegments(ScopeOf(marker)), DirSegments(PosixDirname(route)))

\* The handler lists of the covering marker files whose scope has depth d, in
\* the order the files were enumerated.
RECURSIVE HandlersAtDepth(_, _, _)
HandlersAtDepth(files, route, d) ==
    IF files = <<>> THEN <<>>
    ELSE (IF /\ Covers(Head(files), route)
             /\ Len(DirSegments(ScopeOf(Head(files)))) = d
          THEN ResolveHandlers(Head(files), markers[Head(files)])
          ELSE <<>>)
         \o HandlersAtDepth(Tail(files), route, d)

RECURSIVE ChainByDepth(_, _, _)
ChainByDepth(files, route, d) ==
    IF d > Len(DirSegments(PosixDirname(route))) THEN <<>>
    ELSE HandlersAtDepth(files, route, d) \o ChainByDepth(files, route, d + 1)

\* C1: the chain of a route is the concatenation, in ascending scope depth,
\* of the handler lists of the scopes that are the root, the route's
\* directory or an ancestor directory of it, matched on whole path segments.
C1_ChainIsScopesByDepth ==
    mwPc = "resolved" => chain = ChainByDepth(globOrder, chainFile, 0)

\* root, `api` and `api/api-x` all contribute to a route in api/api-x, while
\* a marker in api-x does not contribute to a route in api
C1_Witness ==
    /\ mwPc = "resolved"
    /\ Len(chain) >= 2
    /\ \E i, j \in DOMAIN chain :
          i < j /\ ScopeDepth(ScopeOf(chain[i].file)) < ScopeDepth(ScopeOf(chain[j].file))
    /\ \E f \in DOMAIN markers :
          /\ StartsWith(PosixDirname(chainFile), ScopeOf(f))
          /\ ScopeOf(f) # ""
          /\ ~Covers(f, chainFile)

\* C2 (as claimed): for a fixed set of marker files the chain of a route is
\* the same whatever the order in which the files are enumerated.
C2_ChainIndependentOfEnumeration ==
    mwPc = "resolved" =>
        \A order \in Enumerations(DOMAIN markers) :
            getMiddlewareChain(chainFile, scanMiddleware(order, markers)) = chain

\* ------------------------------------------- claims on the running application
IsPrefix(p, q) == Len(p) <= Len(q) /\ SubSeq(q, 1, Len(p)) = p

\* the hooks and handler that have run for the request, by stage
EventsAt(stage) == SelectSeq(req.ran, LAMBDA e : e.stage = stage)
FnsOf(events) == [i \in DOMAIN events |-> events[i].fn]

IsFileRoute(r) == fastifyRoutes[r].file # ""

\* the middleware chain of a registered file-based route
RouteChain(r) == getMiddlewareChain(fastifyRoutes[r].file, mwEntries)

\* C3: for every request to a file-based route the route's middleware chain
\* runs in chain order before the handler; once a middleware has responded
\* nothing more runs; the handler runs only after the whole chain has
\* completed without responding.
C3_ChainThenHandler ==
    (req.route # 0 /\ IsFileRoute(req.route)) =>
        LET pre == EventsAt("preHandler") IN
        /\ IsPrefix(FnsOf(pre), RouteChain(req.route))
        /\ \A i \in DOMAIN req.ran :
              req.ran[i].outcome # "continue" => i = Len(req.ran)
        /\ \A i \in DOMAIN req.ran :
              req.ran[i].stage = "handler" =>
                  /\ i = Len(req.ran)
                  /\ req.ran[i].fn = fastifyRoutes[req.route].handler
                  /\ FnsOf(pre) = RouteChain(req.route)
                  /\ \A j \in 1..(i - 1) : req.ran[j].outcome = "continue"

\* a request whose second middleware responded: the handler did not run
C3_Witness ==
    /\ req.route # 0 /\ IsFileRoute(req.route) /\ req.done
    /\ Len(RouteChain(req.route)) >= 3
    /\ LET pre == EventsAt("preHandler") IN
          /\ Len(pre) = 2
          /\ pre[1].outcome = "continue"
          /\ pre[2].outcome = "respond"
          /\ ScopeOf(pre[1].fn.file) = ""
    /\ EventsAt("handler") = <<>>

TopLevelUnknown(file) == ~StartsWith(file, "api/") /\ ~StartsWith(file, "pages/")
IsRegistered(file) == \E i \in DOMAIN fastifyRoutes : fastifyRoutes[i].file = file
IsListed(file) == \E i \in DOMAIN routeEntries : routeEntries[i].filePath = file

\* C6 (as claimed): a route file whose top-level directory is neither api/
\* nor pages/ is not registered and is absent from the returned route list.
C6_UnknownTopLevelAbsent ==
    pcApp = "listening" =>
        \A f \in DOMAIN routeFiles :
            TopLevelUnknown(f) => ~IsRegistered(f) /\ ~IsListed(f)

\* the module loads and exports a component or function as default, or a
\* function under the upper-case (else lower-case) name of an HTTP method
ExportsPageOrHandler(mod) ==
    /\ mod.loads
    /\ \/ ExportKind(mod, "default") \in {"component", "function"}
       \/ \E m \in DOMAIN LowerCase :
            \/ ExportKind(mod, m) = "function"
            \/ ExportKind(mod, m) = "undefined"
                  /\ ExportKind(mod, LowerCase[m]) = "function"

\* C6 (amended): such a file is handled as a page route.  It is registered and
\* listed, at the URL filePathToUrlPath gives it, exactly when it loads and
\* exports a component, a default function or an HTTP-method function.
C6_UnknownTopLevelIsPage ==
    pcApp = "listening" =>
        \A f \in DOMAIN routeFiles :
            TopLevelUnknown(f) =>
                /\ IsRegistered(f) <=> ExportsPageOrHandler(routeFiles[f])
                /\ IsListed(f) <=> ExportsPageOrHandler(routeFiles[f])
                /\ \A i \in DOMAIN fastifyRoutes :
                      fastifyRoutes[i].file = f =>
                          fastifyRoutes[i].url = filePathToUrlPath(f)
                /\ \A i \in DOMAIN routeEntries :
                      routeEntries[i].filePath = f => routeEntries[i].type = "page"

C6_Witness ==
    /\ pcApp = "listening"
    /\ DOMAIN routeFiles = {"other/x.ts", "other/none.ts"}
    /\ \E i \in DOMAIN fastifyRoutes :
          /\ fastifyRoutes[i].file = "other/x.ts"
          /\ fastifyRoutes[i].url = "/other/x"
          /\ fastifyRoutes[i].method = "GET"
    /\ ~IsRegistered("other/none.ts")

\* the handlers scanned for one scope
RECURSIVE ScopeHandlers(_, _)
ScopeHandlers(entries, scope) ==
    IF entries = <<>> THEN <<>>
    ELSE (IF Head(entries).scope = scope THEN Head(entries).handlers ELSE <<>>)
         \o ScopeHandlers(Tail(entries), scope)

Range(q) == {q[i] : i \in DOMAIN q}

UnderApi(url) == url = "/api" \/ StartsWith(url, "/api/")

\* C7 (as claimed): a registered route has the handlers of api/_middleware in
\* its preHandler chain if and only if its URL path is under /api.
C7_ApiMiddlewareIffApiUrl ==
    (pcApp = "listening" /\ ScopeHandlers(mwEntries, "api") # <<>>) =>
        \A i \in DOMAIN fastifyRoutes :
            (Range(ScopeHandlers(mwEntries, "api"))
                 \subseteq Range(fastifyRoutes[i].preHandler))
            <=> UnderApi(fastifyRoutes[i].url)

\* C8 (as claimed): the handlers of the root _middleware file run on every
\* request the server handles: whenever a route handler runs, they ran first.
C8_RootMiddlewareOnEveryRequest ==
    (req.route # 0 /\ EventsAt("handler") # <<>>) =>
        Range(ScopeHandlers(mwEntries, "")) \subseteq Range(FnsOf(EventsAt("preHandler")))

\* C9: the global middleware of config.middleware runs on every request, in
\* configuration order, before every file-based middleware and before the
\* route handler (a global middleware that responds ends the request).
C9_GlobalMiddlewareFirst ==
    req.route # 0 =>
        LET on == EventsAt("onRequest") IN
        /\ IsPrefix(FnsOf(on), config.middleware)
        /\ IsPrefix(on, req.ran)
        /\ \A i \in DOMAIN req.ran :
              req.ran[i].stage # "onRequest" =>
                  /\ FnsOf(on) = config.middleware
                  /\ \A j \in DOMAIN on : on[j].outcome = "continue"
        /\ req.done =>
              \/ FnsOf(on) = config.middleware
              \/ on[Len(on)].outcome # "continue"

\* a request to a file-based route that went through two global middleware,
\* the scope middleware and the handler
C9_Witness ==
    /\ req.route # 0 /\ IsFileRoute(req.route) /\ req.done
    /\ Len(config.middleware) = 2
    /\ Len(EventsAt("onRequest")) = 2
    /\ Len(EventsAt("preHandler")) >= 1
    /\ Len(EventsAt("handler")) = 1

\* ------------------------------------------------- claims on the OAuth callback
\* the value of the moria_oauth_state cookie a Cookie header carries: the text
\* after the name and "=" of its first pair of that name
CookieValueOf(cookieHeader) ==
    LET pair == FindStateCookie(Split(cookieHeader, ";")) IN
    IF pair = Undefined THEN Undefined ELSE Slice(pair, Len(StateCookieName) + 1)

\* the positions of an event in the callback's call log
EventsOf(c, op, kind) ==
    {i \in DOMAIN c.calls : c.calls[i].op = op /\ c.calls[i].kind = kind}

StateMatchesCookie(c) ==
    /\ Truthy(CookieValueOf(c.cookie))
    /\ c.query.state = CookieValueOf(c.cookie)

\* exchangeCode returned a token, then fetchProfile was called with that token
\* and returned, then signIn was called
ExchangedThenFetched(c) ==
    \A s \in EventsOf(c, "signIn", "call") :
        \E x \in EventsOf(c, "exchangeCode", "return"),
           f \in EventsOf(c, "fetchProfile", "call"),
           r \in EventsOf(c, "fetchProfile", "return") :
            /\ x < f /\ f < r /\ r < s
            /\ c.calls[f].val = c.calls[x].val

\* C10: in the OAuth callback signIn is called only if the request's query has
\* a code and no error, its state parameter equals the non-empty value of the
\* moria_oauth_state cookie, exchangeCode has returned and then fetchProfile,
\* called with the returned token, has returned; and exchangeCode is never
\* called in a request whose state parameter differs from the cookie's value.
C10_SignInOnlyAfterStateAndExchange ==
    /\ EventsOf(cb, "signIn", "call") # {} =>
        /\ Truthy(cb.query.code)
        /\ ~Truthy(cb.query.error)
        /\ StateMatchesCookie(cb)
        /\ ExchangedThenFetched(cb)
    /\ (cb.pc # "received" /\ ~StateMatchesCookie(cb)) =>
        EventsOf(cb, "exchangeCode", "call") = {}

\* every step of the callback succeeded: the request passed the error, code
\* and state checks and exchangeCode, fetchProfile and signIn returned
AllStepsSucceeded(c) ==
    /\ ~Truthy(c.query.error)
    /\ Truthy(c.query.code)
    /\ StateAccepted(c.cookie, c.query.state)
    /\ EventsOf(c, "exchangeCode", "return") # {}
    /\ EventsOf(c, "fetchProfile", "return") # {}
    /\ EventsOf(c, "signIn", "return") # {}

\* the Set-Cookie headers of the reply that carry the JWT
JwtCookiesOf(c) ==
    {i \in DOMAIN c.setCookies : StartsWith(c.setCookies[i], "moria_token=")}

CallbackEnded(c) == c.pc \in {"done", "threw"} /\ c.provider # ""

\* C11: every OAuth callback request ends with exactly one redirect, to the
\* success URL when the state check, exchangeCode, fetchProfile and signIn all
\* succeeded and to the failure URL in every other case; no exception escapes
\* the handler, and a request that did not succeed sets no JWT cookie.
C11_OneRedirectPerCallback ==
    /\ cb.pc # "threw"
    /\ CallbackEnded(cb) =>
        /\ Len(cb.redirects) = 1
        /\ AllStepsSucceeded(cb) => cb.redirects[1] = SuccessOf(cb)
        /\ ~AllStepsSucceeded(cb) =>
            /\ cb.redirects[1] = FailureOf(cb)
            /\ JwtCookiesOf(cb) = {}
        /\ SuccessOf(cb) # FailureOf(cb) =>
            (cb.redirects[1] = SuccessOf(cb) <=> AllStepsSucceeded(cb))
    /\ ~CallbackEnded(cb) => cb.redirects = <<>>

\* a callback in which fetchProfile threw and the reply is the one redirect
\* to a failure URL that differs from the success URL
C11_Witness ==
    /\ cb.pc = "done"
    /\ EventsOf(cb, "fetchProfile", "throw") # {}
    /\ cb.redirects = <<"/denied">>
    /\ SuccessOf(cb) = "/welcome"

\* ---------------------------------------------------- claims on requireAuth
\* the role the guard asks for, if it asks for one
RequiredRole == RoleOf(guard.options)

GuardedRequestSeen == greq.pc \notin {"preHandler"} /\ greq # NoGuardedRequest

\* C12: a route guarded by requireAuth reaches its handler only if the
\* request's JWT verifies and, when a role is asked for, the token's role
\* equals it; a missing or invalid token is answered 401 Unauthorized, a valid
\* token with another role 403 Forbidden, and a guard without a role never
\* answers 403.
C12_GuardedHandlerNeedsToken ==
    /\ greq.pc = "handler" \/ greq.handled =>
        /\ JwtVerifies(greq.token)
        /\ Truthy(RequiredRole) => greq.token.role = RequiredRole
    /\ GuardedRequestSeen /\ ~JwtVerifies(greq.token) => greq.reply = Unauthorized
    /\ (GuardedRequestSeen /\ JwtVerifies(greq.token) /\ Truthy(RequiredRole)
            /\ greq.token.role # RequiredRole) => greq.reply = Forbidden
    /\ ~Truthy(RequiredRole) => greq.reply.status # 403

\* a verified token of role "user" is answered 403 by requireAuth({role: "admin"})
C12_Witness ==
    /\ guard = [usage |-> "factory", options |-> OptionsArg("admin")]
    /\ greq.token = Jwt(Secret, FALSE, "user")
    /\ greq.pc = "done"
    /\ greq.reply = Forbidden
    /\ ~greq.handled

\* ------------------------------------------------ claims on the redirect URLs
\* the provider of the callback was created without redirects of its own
CreatedWithoutRedirects(c) ==
    authConfig.providers[c.provider] =
        ProviderOf(c.provider, RedirectOptions(Undefined, Undefined))

\* C13: when a provider is created without its own successRedirect and
\* failureRedirect, the callback redirects to AuthConfig.successRedirect on
\* success and to AuthConfig.failureRedirect on failure, and to "/" only when
\* AuthConfig does not set the value either.
C13_ConfigRedirectsAreDefaults ==
    (cb.pc = "done" /\ cb.provider # "" /\ CreatedWithoutRedirects(cb)) =>
        cb.redirects =
            <<IF AllStepsSucceeded(cb)
              THEN Coalesce(authConfig.successRedirect, "/")
              ELSE Coalesce(authConfig.failureRedirect, "/")>>

\* ------------------------------------------------- claims on failing imports
ImportFails(f) == IsRouteFile(f) /\ ~routeFiles[f].loads

\* the module loads and exports something its branch of scanRoutes turns into
\* a route: for an api/ file a default function or an HTTP-method function
ExportsRoute(f) ==
    IF StartsWith(f, "api/")
    THEN /\ ExportsPageOrHandler(routeFiles[f])
         /\ \/ ExportKind(routeFiles[f], "default") # "component"
            \/ ExportsPageOrHandler(
                   [routeFiles[f] EXCEPT !.exports = [@ EXCEPT !["default"] = "value"]])
    ELSE ExportsPageOrHandler(routeFiles[f])

\* C14: if importing a route file fails, that file is skipped and every other
\* loadable route file is still returned by scanRoutes and registered by
\* registerRoutes; the failure does not abort the scan or start-up.
C14_ImportFailureSkipsFile ==
    (pcApp # "created" /\ \E f \in DOMAIN routeFiles : ImportFails(f)) =>
        /\ pcApp = "listening"
        /\ \A f \in DOMAIN routeFiles :
              IF ImportFails(f) THEN ~IsListed(f) /\ ~IsRegistered(f)
              ELSE ExportsRoute(f) => IsListed(f) /\ IsRegistered(f)

\* a routes directory with a failing file and a loadable one, after listen
C14_Witness ==
    /\ pcApp = "listening"
    /\ DOMAIN routeFiles = {"other/bad.ts", "api/hello.ts"}
    /\ ImportFails("other/bad.ts")
    /\ IsListed("api/hello.ts") /\ IsRegistered("api/hello.ts")
    /\ ~IsListed("other/bad.ts")

\* ------------------------------------------- claims on failing marker files
\* the marker file fails to load or its default export holds no function
YieldsNoHandler(m) == markers[m] \in {"throws", "none"}

LiveMarkers == {m \in DOMAIN markers : ~YieldsNoHandler(m)}

\* the entries a scan of the other marker files alone gives
EntriesOfLiveMarkers ==
    {scanMiddleware(order, markers) : order \in Enumerations(LiveMarkers)}

\* C15: a scope-marker file that fails to load, or whose default export gives
\* no function, produces no scope entry: it contributes to no chain, the other
\* scopes are as they would be without it, and every route inside its
\* directory is still registered, with the chain of the remaining scopes.
C15_DeadMarkerLeavesNoScope ==
    (pcApp = "listening" /\ \E m \in DOMAIN markers : YieldsNoHandler(m)) =>
        /\ mwEntries \in EntriesOfLiveMarkers
        /\ \A i \in DOMAIN mwEntries :
              \A m \in DOMAIN markers :
                  YieldsNoHandler(m) => mwEntries[i].scope # ScopeOf(m)
        /\ \A i \in DOMAIN fastifyRoutes :
              \A j \in DOMAIN fastifyRoutes[i].preHandler :
                  fastifyRoutes[i].preHandler[j].file \in LiveMarkers
        /\ \A f \in DOMAIN routeFiles :
              ExportsRoute(f) =>
                  \E i \in DOMAIN fastifyRoutes :
                      /\ fastifyRoutes[i].file = f
                      /\ fastifyRoutes[i].preHandler
                             = getMiddlewareChain(f, mwEntries)

\* pages/index.ts is registered with the root scope's handlers only, its own
\* directory's marker file having given no handler
C15_Witness ==
    /\ pcApp = "listening"
    /\ "pages/_middleware.js" \in DOMAIN markers
    /\ markers["pages/_middleware.js"] = "none"
    /\ "_middleware.ts" \in DOMAIN markers
    /\ \E i \in DOMAIN fastifyRoutes :
          /\ fastifyRoutes[i].file = "pages/index.ts"
          /\ fastifyRoutes[i].preHandler = ScopeHandlers(mwEntries, "")
          /\ Len(fastifyRoutes[i].preHandler) = 2

\* ------------------------------------------------ claims on the glob call
\* a scope-marker or other "_" file, a declaration file or a test file
IsNeverARoute(file) ==
    LET name == PosixBasename(file) IN
    \/ StartsWith(name, "_")
    \/ EndsWith(name, ".d.ts")
    \/ Contains(name, ".test.")
    \/ Contains(name, ".spec.")

\* C16: no file whose name starts with "_" (the scope-marker files among
\* them), no declaration file (*.d.ts) and no test file (*.test.*, *.spec.*)
\* is returned by scanRoutes or registered as a route, at any directory depth.
C16_IgnoredFilesAreNotRoutes ==
    \A f \in DOMAIN routeFiles :
        IsNeverARoute(f) => ~IsListed(f) /\ ~IsRegistered(f)

\* a nested test file next to a route file: only the route file is registered
C16_Witness ==
    /\ pcApp = "listening"
    /\ DOMAIN routeFiles = {"api/v1/hello.test.ts", "api/v1/hello.ts"}
    /\ IsRegistered("api/v1/hello.ts")
    /\ ~IsRegistered("api/v1/hello.test.ts")

\* ------------------------------------------------- claims on urlPrefix
\* C17: for every scanned scope entry, the URL pattern of every route to
\* which the entry's handlers are attached starts with the entry's urlPrefix.
C17_UrlPrefixCoversRoutes ==
    pcApp = "listening" =>
        \A i \in DOMAIN fastifyRoutes, e \in DOMAIN mwEntries :
            (IsFileRoute(i)
                /\ Range(mwEntries[e].handlers) \subseteq Range(fastifyRoutes[i].preHandler))
            => StartsWith(fastifyRoutes[i].url, mwEntries[e].urlPrefix)

\* ------------------------------------------------ claims on API route files
\* the (method, handler) pairs registered for the API file
RegisteredFor(f) ==
    {<<fastifyRoutes[i].method, fastifyRoutes[i].handler.k>> :
        i \in {j \in DOMAIN fastifyRoutes : fastifyRoutes[j].file = f}}

\* the file exports a function under the method's upper- or lower-case name
NamedEitherCase(mod, m) ==
    ExportKind(mod, m) = "function" \/ ExportKind(mod, LowerCase[m]) = "function"

\* the one export the method is taken from: the upper-case name when it is
\* exported at all, the lower-case name otherwise
NamedExport(mod, m) == IF ExportKind(mod, m) # "undefined" THEN m ELSE LowerCase[m]

MethodsWithDefault(mod, named) ==
    named \cup (IF ExportKind(mod, "default") = "function" /\ "GET" \notin named
                THEN {"GET"} ELSE {})

\* C18 (as claimed): the routes registered for an API route file are the HTTP
\* methods for which it exports a function under the upper-case or lower-case
\* name, plus GET from a default-exported function when there is no named GET.
C18_ApiMethodsEitherCase ==
    pcApp = "listening" =>
        \A f \in DOMAIN routeFiles :
            {r[1] : r \in RegisteredFor(f)} =
                MethodsWithDefault(routeFiles[f],
                    {m \in DOMAIN LowerCase : NamedEitherCase(routeFiles[f], m)})

\* C18 (amended): each HTTP method is taken from one export, the upper-case
\* name if the file exports it and the lower-case name otherwise, and is
\* registered when that export is a function; GET comes from a default-exported
\* function only when no GET was taken from a named export; every route is
\* registered at the file's URL, and a file with no such export registers
\* nothing.
C18_ApiMethodsFromOneExport ==
    pcApp = "listening" =>
        \A f \in DOMAIN routeFiles :
            LET mod   == routeFiles[f]
                named == {m \in DOMAIN LowerCase :
                             ExportKind(mod, NamedExport(mod, m)) = "function"}
            IN  /\ RegisteredFor(f) =
                      {<<m, NamedExport(mod, m)>> : m \in named}
                      \cup (IF "GET" \in MethodsWithDefault(mod, named) \ named
                            THEN {<<"GET", "default">>} ELSE {})
                /\ \A i \in DOMAIN fastifyRoutes :
                      fastifyRoutes[i].file = f =>
                          fastifyRoutes[i].url = filePathToUrlPath(f)
                /\ IsListed(f) <=> MethodsWithDefault(mod, named) # {}

\* a file exporting GET, post and a default function: the named GET is the
\* GET route, next to POST
C18_Witness ==
    /\ pcApp = "listening"
    /\ routeFiles[ApiFile].exports =
           ("GET" :> "function" @@ "post" :> "function" @@ "default" :> "function")
    /\ RegisteredFor(ApiFile) = {<<"GET", "GET">>, <<"POST", "post">>}
    /\ \E i \in DOMAIN fastifyRoutes : fastifyRoutes[i].url = "/api/items/:id"

\* ------------------------------------------------ claims on the SSR handler
\* C19: for a request to a page route with a component, getServerData (if
\* exported as a function) is called and has completed before renderToString
\* is called; renderToString gets the loader's result as initialData, or an
\* empty object when there is no loader or its result is falsy; the page is
\* sent with content type text/html.
C19_LoaderThenRender ==
    /\ \A r \in EventsOf(ssr, "renderToString", "call") :
          IF ssr.route.getServerData
          THEN \E c \in EventsOf(ssr, "getServerData", "call"),
                  l \in EventsOf(ssr, "getServerData", "return") :
                  /\ c < l /\ l < r
                  /\ ssr.calls[r].val =
                         (IF Falsy(ssr.calls[l].val) THEN "{}" ELSE ssr.calls[l].val)
          ELSE /\ ssr.calls[r].val = "{}"
               /\ EventsOf(ssr, "getServerData", "call") = {}
    /\ ssr.route.getServerData /\ ssr.pc \in {"loading", "rendering", "sent"} =>
          EventsOf(ssr, "getServerData", "call") # {}
    /\ ssr.pc = "sent" =>
          /\ ssr.contentType = "text/html"
          /\ Cardinality(EventsOf(ssr, "renderToString", "call")) = 1
    /\ ssr.body # "" => ssr.pc = "sent"

\* a page whose loader resolved to null is rendered with an empty initialData
C19_Witness ==
    /\ ssr.pc = "sent"
    /\ ssr.route.getServerData
    /\ \E l \in EventsOf(ssr, "getServerData", "return") :
          /\ ssr.calls[l].val = "null"
          /\ ssr.calls[l + 1] = Event("renderToString", "call", "{}")
    /\ ssr.contentType = "text/html"

\* ------------------------------------------------------- claims on signIn
\* the attributes that follow the name=value pair of a Set-Cookie header
CookieAttributes(setCookie) ==
    LET parts == Split(setCookie, ";") IN {Trim(parts[i]) : i \in 2..Len(parts)}

\* C20: the cookie signIn sets always carries HttpOnly, and carries Secure
\* exactly when config.secureCookies is true or, secureCookies being unset,
\* NODE_ENV is production; secureCookies: false removes Secure in production.
C20_SecureCookieAttribute ==
    signCookie # "" =>
        /\ "HttpOnly" \in CookieAttributes(signCookie)
        /\ "Secure" \in CookieAttributes(signCookie)
               <=> \/ signConfig.secureCookies = "true"
                   \/ signConfig.secureCookies = Undefined
                          /\ signConfig.nodeEnv = "production"

\* in production with secureCookies: false the cookie is set without Secure
C20_Witness ==
    /\ signConfig.secureCookies = "false"
    /\ signConfig.nodeEnv = "production"
    /\ signCookie # ""
    /\ "Secure" \notin CookieAttributes(signCookie)
    /\ "HttpOnly" \in CookieAttributes(signCookie)

\* ---------------------------------------------------------------------------
\* @moriajs/ui: the toast store (toasts, toast.show / dismiss / clear and the
\* setTimeout callback that show arms).
\* ---------------------------------------------------------------------------

MaxShown == 3

DefaultDuration == 3000

\* The id show builds from Date.now() and Math.random(): one fresh value per
\* call, here the number of the call.
ToastIds == 1..MaxShown

\* What a caller passes as duration: nothing, or a number of milliseconds.
DurationArgs ==
    {[given |-> FALSE, ms |-> 0]} \cup {[given |-> TRUE, ms |-> d] : d \in {-1, 0, 1000}}

\* show(message, type = 'info', duration = 3000): the default parameter.
DurationOf(arg) == IF arg.given THEN arg.ms ELSE DefaultDuration

Toast(id, duration) == [id |-> id, duration |-> duration]

\* toasts.findIndex((t) => t.id === id): the first position, -1 if none.
FindIndex(list, id) ==
    IF \E i \in DOMAIN list : list[i].id = id
    THEN CHOOSE i \in DOMAIN list :
             list[i].id = id /\ \A j \in 1..(i - 1) : list[j].id # id
    ELSE -1

\* toasts.splice(index, 1)
Splice(list, index) == SubSeq(list, 1, index - 1) \o SubSeq(list, index + 1, Len(list))

\* const index = findIndex(...); if (index !== -1) toasts.splice(index, 1)
RemoveById(list, id) ==
    LET index == FindIndex(list, id)
    IN  IF index # -1 THEN Splice(list, index) ELSE list

TimerRemovesOldest(list, id) == IF list # <<>> THEN Tail(list) ELSE list

\* The callback show hands to setTimeout, closed over the id of its toast.
TimerCallback(list, id) == RemoveById(list, id)

NeverArmed(duration) == FALSE

\* if (duration > 0) setTimeout(...)
ArmsTimer(duration) == duration > 0

ToastInit ==
    /\ toasts = <<>>
    /\ timers = {}
    /\ nextId = 1
    /\ lastOp = NoCall
    /\ UrlOff
    /\ MwOff
    /\ AppOff
    /\ OAuthOff
    /\ GuardOff
    /\ SsrOff
    /\ SignOff
    /\ ScaffoldOff
    /\ BrowserOff

\* toast.show, and success / error / warning / info, which pass their duration on.
Show(arg) ==
    /\ nextId \in ToastIds
    /\ LET id == nextId
           duration == DurationOf(arg)
       IN  /\ toasts' = Append(toasts, Toast(id, duration))
           /\ timers' = IF ArmsTimer(duration) THEN timers \cup {id} ELSE timers
           /\ lastOp' = [op |-> "show", id |-> id, removed |-> FALSE]
    /\ nextId' = nextId + 1
    /\ UNCHANGED <<urlVars, mwVars, appVars, oauthVars, guardVars, ssrVars, signVars, scaffoldVars, browserVars>>

\* The setTimeout callback of toast id runs.
TimerFires(id) ==
    /\ id \in timers
    /\ toasts' = TimerCallback(toasts, id)
    /\ timers' = timers \ {id}
    /\ lastOp' = [op |-> "timer", id |-> id, removed |-> toasts' # toasts]
    /\ UNCHANGED <<nextId, urlVars, mwVars, appVars, oauthVars, guardVars, ssrVars, signVars, scaffoldVars, browserVars>>

\* toast.dismiss(id), from a caller or from the Toaster's onclick.
Dismiss(id) ==
    /\ nextId > 0
    /\ toasts' = RemoveById(toasts, id)
    /\ lastOp' = [op |-> "dismiss", id |-> id, removed |-> toasts' # toasts]
    /\ UNCHANGED <<timers, nextId, urlVars, mwVars, appVars, oauthVars, guardVars, ssrVars, signVars, scaffoldVars, browserVars>>

\* toast.clear(): toasts.length = 0
Clear ==
    /\ nextId > 0
    /\ toasts' = <<>>
    /\ lastOp' = [op |-> "clear", id |-> 0, removed |-> toasts # <<>>]
    /\ UNCHANGED <<timers, nextId, urlVars, mwVars, appVars, oauthVars, guardVars, ssrVars, signVars, scaffoldVars, browserVars>>

ToastNext ==
    \/ \E arg \in DurationArgs : Show(arg)
    \/ \E id \in ToastIds : TimerFires(id)
    \/ \E id \in ToastIds : Dismiss(id)
    \/ Clear

SpecToast == ToastInit /\ [][ToastNext]_vars

\* setTimeout runs every callback it was given: each pending timer fires.
SpecToastFair == SpecToast /\ \A id \in ToastIds : WF_vars(TimerFires(id))

\* ---------------------------------------------------------------------------
\* C21: every toast shown with a duration > 0 (3000 when none is given) leaves
\* the list eventually; a toast shown with a duration <= 0 leaves the list only
\* in a dismiss of its id or a clear; the list is in the order of the shows.
\* ---------------------------------------------------------------------------

InList(list, id) == \E i \in DOMAIN list : list[i].id = id

TimedInList(id) == \E i \in DOMAIN toasts : toasts[i].id = id /\ toasts[i].duration > 0

StickyInList(id) == \E i \in DOMAIN toasts : toasts[i].id = id /\ toasts[i].duration <= 0

TimedToastsLeave == \A id \in ToastIds : TimedInList(id) ~> ~InList(toasts, id)

StickyToastsStay ==
    [][\A id \in ToastIds :
          (StickyInList(id) /\ ~InList(toasts', id))
              => \/ lastOp'.op = "clear"
                 \/ lastOp'.op = "dismiss" /\ lastOp'.id = id]_vars

InShownOrder ==
    \A i \in DOMAIN toasts : \A j \in DOMAIN toasts : i < j => toasts[i].id < toasts[j].id

DefaultIsTimed ==
    [][\A arg \in DurationArgs :
          (Show(arg) /\ ~arg.given) => toasts'[Len(toasts')].duration = DefaultDuration]_vars

C21_ToastLifecycle ==
    /\ TimedToastsLeave
    /\ StickyToastsStay
    /\ DefaultIsTimed
    /\ []InShownOrder

\* A timer has just removed its toast while a toast without timer stays listed.
C21_Witness ==
    /\ lastOp.op = "timer"
    /\ lastOp.removed
    /\ \E id \in ToastIds : StickyInList(id)

\* ---------------------------------------------------------------------------
\* C28: a timer that fires removes at most the toast it was armed for; when
\* that toast is no longer listed the list stays as it is, whatever was shown
\* since.
\* ---------------------------------------------------------------------------

OthersKept(list, id) == SelectSeq(list, LAMBDA t : t.id # id)

C28_TimerRemovesOnlyItsToast ==
    [][\A id \in timers \ timers' :
          /\ toasts' = OthersKept(toasts, id)
          /\ ~InList(toasts, id) => toasts' = toasts]_vars

\* A timer fired after its toast was gone, with a later toast in the list.
C28_Witness ==
    /\ lastOp.op = "timer"
    /\ ~lastOp.removed
    /\ \E i \in DOMAIN toasts : toasts[i].id > lastOp.id

\* ---------------------------------------------------------------------------
\* create-moria: the action of the '[project-name]' command
\* (src/packages/create-moria/src/index.ts).
\* ---------------------------------------------------------------------------

\* Directory names in the working directory; "my-moria-app" is the prompt's
\* initial answer.
ProjectNames == {"my-app", "shop", "my-moria-app"}

\* resolve(process.cwd(), name): paths are written relative to the working directory.
Resolve(name) == name

\* join(dir, a, b)
JoinPath(dir, parts) == dir \o "/" \o Join(parts, "/")

NothingExists(disk, dir) == FALSE

\* existsSync(dir)
ExistsSync(disk, dir) == dir \in disk

\* mkdirSync(path, { recursive: true }): the directory and its missing ancestors.
MkdirRecursive(dir, parts) ==
    {dir} \cup {JoinPath(dir, SubSeq(parts, 1, k)) : k \in 1..Len(parts)}

ExistsError(name) == "Error: directory \"" \o name \o "\" already exists."

\* options.javascript ? 'js' : (answers.language ?? 'ts')
LangOf(javascript, answer) == IF javascript THEN "js" ELSE Coalesce(answer, "ts")

ScaffoldInit ==
    /\ \E projectName \in ProjectNames \cup {Undefined}, js \in BOOLEAN, ts \in BOOLEAN,
          disk \in SUBSET ProjectNames :
          scaffold = [NoScaffold EXCEPT !.pc = "start", !.projectName = projectName,
                                        !.javascript = js, !.typescript = ts,
                                        !.disk = disk, !.dirs = disk]
    /\ UrlOff
    /\ MwOff
    /\ AppOff
    /\ OAuthOff
    /\ GuardOff
    /\ SsrOff
    /\ SignOff
    /\ ToastOff
    /\ BrowserOff

ScaffoldFrame == UNCHANGED <<urlVars, mwVars, appVars, oauthVars, guardVars, ssrVars, signVars, toastVars, browserVars>>

\* await prompts([...]); name, lang, dir. A question is asked only when the
\* command line left it open; a cancelled prompt leaves its answer undefined,
\* and resolve() throws on an undefined name.
Prompt ==
    /\ scaffold.pc = "start"
    /\ \E answeredName \in {"my-moria-app", "shop", Undefined},
          answeredLang \in {"ts", "js", Undefined} :
          LET name == Coalesce(scaffold.projectName, answeredName)
              asked == ~(scaffold.typescript \/ scaffold.javascript)
              lang == LangOf(scaffold.javascript, IF asked THEN answeredLang ELSE Undefined)
          IN  /\ scaffold.projectName # Undefined => answeredName = Undefined
              /\ ~asked => answeredLang = Undefined
              /\ scaffold' =
                   IF name = Undefined
                   THEN [scaffold EXCEPT !.pc = "threw"]
                   ELSE [scaffold EXCEPT !.pc = "resolved", !.name = name, !.lang = lang,
                                         !.dir = Resolve(name)]
    /\ ScaffoldFrame

\* if (existsSync(dir)) { console.log(error); process.exit(1) }
CheckExists ==
    /\ scaffold.pc = "resolved"
    /\ scaffold' =
         IF ExistsSync(scaffold.dirs, scaffold.dir)
         THEN [scaffold EXCEPT !.pc = "exited", !.exit = 1,
                               !.out = Append(@, ExistsError(scaffold.name))]
         ELSE [scaffold EXCEPT !.pc = "checked",
                               !.out = Append(@, "Creating MoriaJS project in " \o scaffold.dir)]
    /\ ScaffoldFrame

\* mkdirSync(join(dir, 'src', 'routes')); mkdirSync(join(dir, 'src', 'views'))
MakeDirectories ==
    /\ scaffold.pc = "checked"
    /\ scaffold' = [scaffold EXCEPT !.pc = "dirs",
                       !.dirs = @ \cup MkdirRecursive(scaffold.dir, <<"src", "routes">>)
                                  \cup MkdirRecursive(scaffold.dir, <<"src", "views">>)]
    /\ ScaffoldFrame

\* writeFileSync(join(dir, 'package.json'), ...)
WritePackageJson ==
    /\ scaffold.pc = "dirs"
    /\ scaffold' = [scaffold EXCEPT !.pc = "package",
                       !.files = @ \cup {JoinPath(scaffold.dir, <<"package.json">>)}]
    /\ ScaffoldFrame

\* writeFileSync(join(dir, `moria.config.${ext}`), configContent)
WriteConfig ==
    /\ scaffold.pc = "package"
    /\ scaffold' = [scaffold EXCEPT !.pc = "config",
                       !.files = @ \cup {JoinPath(scaffold.dir, <<"moria.config." \o scaffold.lang>>)}]
    /\ ScaffoldFrame

\* writeFileSync(join(dir, '.gitignore'), ...); the closing messages
WriteGitignore ==
    /\ scaffold.pc = "config"
    /\ scaffold' = [scaffold EXCEPT !.pc = "done",
                       !.files = @ \cup {JoinPath(scaffold.dir, <<".gitignore">>)},
                       !.out = Append(@, "Project created successfully!")]
    /\ ScaffoldFrame

ScaffoldNext ==
    \/ Prompt
    \/ CheckExists
    \/ MakeDirectories
    \/ WritePackageJson
    \/ WriteConfig
    \/ WriteGitignore

SpecScaffold == ScaffoldInit /\ [][ScaffoldNext]_vars

\* ---------------------------------------------------------------------------
\* C22: when the target directory exists already, create-moria prints the
\* error and exits with no directory made and no file written; a directory is
\* made or a file written only after the existence check found nothing.
\* ---------------------------------------------------------------------------

TargetExisted == scaffold.dir # "" /\ scaffold.dir \in scaffold.disk

NothingCreated == scaffold.dirs = scaffold.disk /\ scaffold.files = {}

CheckPassed == scaffold.pc \in {"checked", "dirs", "package", "config", "done"}

ScaffoldEnded == scaffold.pc \in {"exited", "threw", "done"}

C22_ExistingTargetIsUntouched ==
    /\ TargetExisted => NothingCreated /\ ~CheckPassed
    /\ (TargetExisted /\ scaffold.pc # "resolved")
           => /\ scaffold.pc = "exited"
              /\ scaffold.exit = 1
              /\ scaffold.out = <<ExistsError(scaffold.name)>>
    /\ ~NothingCreated => CheckPassed /\ ~TargetExisted

\* The run ended on the error for a directory that was there before it began.
C22_Witness ==
    /\ scaffold.pc = "exited"
    /\ TargetExisted
    /\ scaffold.exit = 1

\* ------------------------------------------------ a page route file, applied
\* what a page route file may export: each name absent, a function or another
\* value, and the default export also a component
PageExportNames == {"GET", "POST", "post", "default"}
PageModules ==
    {Module([n \in S |-> IF n = "default" THEN d ELSE kinds[n]]) :
        S \in SUBSET PageExportNames,
        kinds \in [PageExportNames -> {"function", "value"}],
        d \in {"function", "component", "value"}}
PageFile == "contact.ts"

PageInit ==
    /\ SsrOff
    /\ SignOff
    /\ ToastOff
    /\ ScaffoldOff
    /\ BrowserOff
    /\ \E mod \in PageModules : routeFiles = (PageFile :> mod)
    /\ markers = <<>>
    /\ config = [middleware |-> <<>>]
    /\ pcApp = "created"
    /\ onRequestHooks = <<>>
    /\ fastifyRoutes = <<HealthRoute>>
    /\ routeEntries = <<>>
    /\ req = NoReq
    /\ mwPc = "off"
    /\ globOrder = <<>>
    /\ mwEntries = <<>>
    /\ chainFile = ""
    /\ chain = <<>>
    /\ UrlOff
    /\ OAuthOff
    /\ GuardOff

SpecPage == PageInit /\ [][GlobNext]_vars

\* C23: for every page-type route file, each HTTP method the file exports a
\* function for is registered with that function as its handler at the file's
\* URL, whatever the default export of the file is.
C23_PageMethodsRegistered ==
    pcApp = "listening" =>
        \A f \in DOMAIN routeFiles :
            RouteType(f) = "page" =>
                \A m \in DOMAIN LowerCase :
                    ExportKind(routeFiles[f], NamedExport(routeFiles[f], m)) = "function"
                        => \E i \in DOMAIN fastifyRoutes :
                              /\ fastifyRoutes[i].file = f
                              /\ fastifyRoutes[i].method = m
                              /\ fastifyRoutes[i].url = filePathToUrlPath(f)
                              /\ fastifyRoutes[i].handler.k = NamedExport(routeFiles[f], m)

\* --------------------------------- route files with the same URL, applied
\* One or two route files from names that filePathToUrlPath sends to the same
\* URL (/about, /api/about), each exporting a page component or handlers.
CollidingPaths ==
    {"about.ts", "about.js", "pages/about.ts", "pages/about/index.ts",
     "api/about.ts", "pages/api/about.ts"}
CollidingModules ==
    {Module("GET" :> "function"), Module("POST" :> "function"),
     Module("default" :> "component"), Module("get" :> "function" @@ "PUT" :> "function")}
CollidingTrees ==
    UNION {[S -> CollidingModules] : S \in {{a, b} : a \in CollidingPaths, b \in CollidingPaths}}

CollideInit ==
    /\ SsrOff
    /\ SignOff
    /\ ToastOff
    /\ ScaffoldOff
    /\ BrowserOff
    /\ routeFiles \in CollidingTrees
    /\ markers = <<>>
    /\ config = [middleware |-> <<>>]
    /\ pcApp = "created"
    /\ onRequestHooks = <<>>
    /\ fastifyRoutes = <<HealthRoute>>
    /\ routeEntries = <<>>
    /\ req = NoReq
    /\ mwPc = "off"
    /\ globOrder = <<>>
    /\ mwEntries = <<>>
    /\ chainFile = ""
    /\ chain = <<>>
    /\ UrlOff
    /\ OAuthOff
    /\ GuardOff

SpecCollide == CollideInit /\ [][GlobNext]_vars

\* the HTTP methods a scanned route entry is registered for
MethodsOfEntry(e) ==
    IF e.component THEN {"get"} ELSE {e.methods[i].method : i \in DOMAIN e.methods}

CookieAttributesOf(setCookie) ==
    LET parts == Split(setCookie, ";") IN
    {Trim(parts[i]) : i \in 2..Len(parts)}

\* the cookie a Set-Cookie header carries: [name, value]
CookieOf(setCookie) ==
    LET pair == CookiePairOf(setCookie)
        eq == IndexFrom(pair, "=", 1)
    IN  [name |-> SubSeq(pair, 1, eq - 1), value |-> Slice(pair, eq)]

\* A browser storing one Set-Cookie header: Max-Age=0 removes the cookie of
\* that name, anything else replaces it.
StoreCookie(jar, setCookie) ==
    LET c == CookieOf(setCookie)
        others == SelectSeq(jar, LAMBDA k : k.name # c.name)
    IN  IF "Max-Age=0" \in CookieAttributesOf(setCookie) THEN others
        ELSE Append(others, c)

RECURSIVE StoreCookies(_, _)
StoreCookies(jar, setCookies) ==
    IF setCookies = <<>> THEN jar
    ELSE StoreCookies(StoreCookie(jar, Head(setCookies)), Tail(setCookies))

\* the Cookie header the browser sends
CookieHeaderOf(jar) == Join([i \in DOMAIN jar |-> jar[i].name \o "=" \o jar[i].value], "; ")

\* crypto.randomBytes(16).toString('hex'): a value not issued before
FreshStates == {s \in States : s \notin DOMAIN browser.issuers}

BrowserInit ==
    /\ SsrOff
    /\ SignOff
    /\ ToastOff
    /\ ScaffoldOff
    /\ GuardOff
    /\ authConfig \in AuthConfigs
    /\ issued = ""
    /\ cb = NoCallback
    /\ browser = NoBrowser
    /\ UrlOff
    /\ MwOff
    /\ AppOff

BrowserFrame ==
    UNCHANGED <<authConfig, urlVars, mwVars, appVars, guardVars, ssrVars, signVars, toastVars, scaffoldVars>>

\* GET /auth/:provider from the browser, which stores the state cookie
BrowserAuthorize ==
    /\ cb.pc = "done" /\ browser.stored
    /\ \E provider \in ProviderNames, state \in FreshStates :
        /\ issued' = IssueStateCookie(state)
        /\ browser' = [browser EXCEPT !.jar = StoreCookie(@, issued'),
                                      !.issuers = (state :> provider) @@ @]
    /\ UNCHANGED cb
    /\ BrowserFrame

\* the browser follows a link to a provider's callback path
BrowserCallback ==
    /\ cb.pc = "done" /\ browser.stored
    /\ \E provider \in ProviderNames, code \in Codes, state \in QueryStates, error \in Errors :
        LET query == [code |-> code, state |-> state, error |-> error] IN
        /\ cb' = [NoCallback EXCEPT !.provider = provider, !.query = query,
                                    !.cookie = CookieHeaderOf(browser.jar),
                                    !.pc = "received"]
        /\ browser' = [browser EXCEPT !.last = [provider |-> provider, query |-> query],
                                      !.replay = FALSE, !.stored = FALSE]
    /\ UNCHANGED issued
    /\ BrowserFrame

\* the browser sends the callback request it sent last once more
BrowserReplay ==
    /\ cb.pc = "done" /\ browser.stored
    /\ browser.last # NoVisit
    /\ cb' = [NoCallback EXCEPT !.provider = browser.last.provider,
                                !.query = browser.last.query,
                                !.cookie = CookieHeaderOf(browser.jar),
                                !.pc = "received"]
    /\ browser' = [browser EXCEPT !.replay = TRUE, !.stored = FALSE]
    /\ UNCHANGED issued
    /\ BrowserFrame

\* the browser receives the callback's response and stores its cookies
BrowserStores ==
    /\ cb.pc \in {"done", "threw"} /\ ~browser.stored
    /\ browser' = [browser EXCEPT
                     !.jar = StoreCookies(@, cb.setCookies),
                     !.passed = IF browser.replay THEN @
                                ELSE \E i \in DOMAIN cb.calls : cb.calls[i].op = "exchangeCode",
                     !.stored = TRUE]
    /\ UNCHANGED <<issued, cb>>
    /\ BrowserFrame

BrowserNext ==
    \/ BrowserAuthorize
    \/ BrowserCallback
    \/ BrowserReplay
    \/ BrowserStores
    \/ CheckCallback
    \/ ExchangeSettles
    \/ FetchSettles
    \/ SignInSettles

SpecBrowser == BrowserInit /\ [][BrowserNext]_vars

\* ------------------------------------------- claims on the state cookie
StateCheckPassed(c) == \E i \in DOMAIN c.calls : c.calls[i].op = "exchangeCode"

ClearsStateCookie(setCookie) ==
    /\ CookieOf(setCookie).name = StateCookieName
    /\ "Max-Age=0" \in CookieAttributesOf(setCookie)

TouchesStateCookie(setCookie) == CookieOf(setCookie).name = StateCookieName

\* C26: when the callback's state check passes, the response carries a
\* Set-Cookie that clears moria_oauth_state (Max-Age=0), whatever becomes of
\* the code exchange, and the same callback sent again by the browser that
\* stored the response is rejected; the responses of the rejection paths
\* (error, missing code, state mismatch) carry no Set-Cookie for it.
C26_StateCookieClearedOnPass ==
    /\ StateCheckPassed(cb) =>
          \E i \in DOMAIN cb.setCookies : ClearsStateCookie(cb.setCookies[i])
    /\ (cb.pc = "done" /\ ~StateCheckPassed(cb)) =>
          \A i \in DOMAIN cb.setCookies : ~TouchesStateCookie(cb.setCookies[i])
    /\ (browser.stored /\ browser.passed) =>
          \A i \in DOMAIN browser.jar : browser.jar[i].name = StateCookieName
              => browser.jar[i].value # browser.last.query.state
    /\ (browser.replay /\ browser.passed /\ cb.pc # "received") =>
          /\ ~StateCheckPassed(cb)
          /\ cb.pc = "done"
          /\ cb.redirects = <<FailureOf(cb)>>

\* The callback passed the state check and the exchange failed; the browser
\* stored the response and sent the callback again, which was rejected.
C26_Witness ==
    /\ browser.replay /\ browser.passed /\ browser.stored
    /\ cb.pc = "done"
    /\ ~StateCheckPassed(cb)
    /\ browser.jar = <<>>

\* C27: the callback of a provider completes a sign-in only with a state that
\* the /auth route of the same provider issued; a state issued by /auth/google
\* is not accepted by the github callback, nor the other way round.
C27_StateBoundToProvider ==
    (\E i \in DOMAIN cb.calls : cb.calls[i].op = "signIn" /\ cb.calls[i].kind = "return") =>
        /\ cb.query.state \in DOMAIN browser.issuers
        /\ browser.issuers[cb.query.state] = cb.provider
====
